---- MODULE Spec2Model ----
(***************************************************************************)
(* Model of the tracking library of napari-particle-tracking               *)
(* (libs/_tracking.py): track(), msd() and histogram().                    *)
(*                                                                         *)
(* Coordinates, frames and MSD inputs are integers; means are exact        *)
(* rationals <<numerator, denominator>>, so no rounding is modelled.       *)
(***************************************************************************)
EXTENDS Integers, Sequences, FiniteSets, TLC

VARIABLES
    pc,            \* position in track(): "idle", "link", "linked", "done"
    search_range,  \* argument of track()
    memory,        \* argument of track()
    link_kwargs,   \* keyword arguments tp.link_df was called with
    frame,         \* next frame the linker processes
    active,        \* linker bookkeeping: tracks still eligible as link sources
    nextId,        \* linker bookkeeping: id the next new track receives
    linked,        \* rows returned by tp.link_df: [frame, pos, particle]
    result,        \* rows returned by track(): [frame, pos, track_id]
    msd_pc,        \* position in msd(): "idle", "call", "loop", "done", "raised"
    pos,           \* argument of msd(): [ncols, rows], the position matrix
    limit,         \* argument of msd()
    lagtimes,      \* np.arange(1, min(limit, rows - 1) + 1)
    lt,            \* index in lagtimes of the next loop iteration of msd()
    msd_list,      \* per lag: <x>, <y>, <x^2>, <y^2>
    msd_ret,       \* series returned by msd(): rows [lag, msd]
    hist_pc,       \* position in histogram(): "idle", "call", "binned", "done", "raised"
    data,          \* argument of histogram()
    binsize,       \* argument of histogram()
    samples,       \* the local data after ravel() and the NaN filter
    bins,          \* the list of bin edges built in the try block
    hist,          \* counts returned by histogram()
    edges,         \* edges returned by histogram()
    det_pc,        \* position in the detection functions: "idle", "call", "loop",
                   \* "returned", "raised", "frame_call", "frame_returned", "frame_raised"
    images,        \* argument of get_timeseries_regions_properties: [ndim, len]
    masks,         \* argument of get_timeseries_regions_properties: [ndim, len]
    det_i,         \* number of frames the loop has taken
    lab,           \* mask of the frame taken last
    labels,        \* labels argument of get_frame_regions_properties
    image_ndim,    \* image.ndim in get_frame_regions_properties
    labels_ndim,   \* labels.ndim in get_frame_regions_properties
    det_result,    \* the local result: [none, rows], rows [frame, label, area]
    det_warnings,  \* warnings signalled so far
    fit_pc,        \* position in basic_msd_fit(): "idle", "call", "fitted", "done", "raised"
    msd_y,         \* argument of basic_msd_fit(): the MSD series
    delta,         \* argument of basic_msd_fit(): the time scale
    best_value,    \* parameters returned by curve_fit: [d, alfa]
    fit_ret,       \* rows returned by basic_msd_fit()
    an_pc,         \* position in _analyze(): "idle", "msd", "fit", "done", "raised"
    tracks_df,     \* the tracks of the table in track_id order, as position matrices
    timedelay,     \* value of the time delay field
    an_k,          \* position of the next group the running apply() takes
    current_track_msd,     \* MSD series of the tracks taken so far
    current_track_fit_df,  \* fit tables of the tracks taken so far
    an_error,      \* the exception that left _analyze(), "" if none
    confined_tracks,   \* _confined_tracks: index entries <<track_id, time>>
    diffusive_tracks,  \* _diffusive_tracks
    directed_tracks,   \* _directed_tracks
    tw_pc,         \* position in TrackPyInitWidget._track(): "idle", "ready",
                   \* "linking", "done", "returned", "raised"
    points,        \* _points_layer.data: one coordinate row per detection
    features,      \* _points_layer.features: [has_visibility, visibility, area]
    points_pd,     \* the table handed to track(): rows [coords, area]
    tw_columns,    \* the local _columns
    tw_tracks,     \* _tracks: rows [coords, area, track_id, length]
    tw_warnings,   \* the distinct warnings signalled by the widget
    tracks_layer,  \* TrackingFilteringWidget._tracks_layer:
                   \* [present, data, original_tracks_df]
    tracks_info,   \* the number of tracks the info widget shows
    length_range,  \* the last range of the length filter, <<>> before any
    od_pc,         \* ObjectDetection: "idle", "ready", "raised"
    objects,       \* ObjectDetection.objects: [is_none, rows]
    od_ret,        \* what the last get_objects_in_frame() gave its caller
    npl_pc,        \* NPLayersWidget: "idle", "ready"
    viewer_layers, \* viewer.layers: rows [name, type]
    layers_combo,  \* _layers_combo: layer type -> names the selector lists
    last_event,    \* the last layer event and the signals it led to
    fs_pc,         \* FeatureSelectionWidget: "idle", "ready"
    checked,       \* the check boxes that are checked
    features_text, \* _features, a string as its sequence of tokens
    fs_events      \* check box events so far

trackVars == <<pc, search_range, memory, link_kwargs, frame, active, nextId, linked, result>>

msdVars == <<msd_pc, pos, limit, lagtimes, lt, msd_list, msd_ret>>

histVars == <<hist_pc, data, binsize, samples, bins, hist, edges>>

detVars == <<det_pc, images, masks, det_i, lab, labels, image_ndim, labels_ndim,
             det_result, det_warnings>>

fitVars == <<fit_pc, msd_y, delta, best_value, fit_ret>>

analyzeVars == <<an_pc, tracks_df, timedelay, an_k, current_track_msd,
                 current_track_fit_df, an_error,
                 confined_tracks, diffusive_tracks, directed_tracks>>

widgetVars == <<tw_pc, points, features, points_pd, tw_columns, tw_tracks,
                tw_warnings, tracks_layer, tracks_info, length_range>>

objectVars == <<od_pc, objects, od_ret>>

layerVars == <<npl_pc, viewer_layers, layers_combo, last_event>>

featureVars == <<fs_pc, checked, features_text, fs_events>>

vars == <<trackVars, msdVars, histVars, detVars, fitVars, analyzeVars, widgetVars,
          objectVars, layerVars, featureVars>>

----------------------------------------------------------------------------
(* Bounds of the checked inputs.                                           *)

MaxFrame == 3          \* frames are 0 .. MaxFrame
MaxRows == 4           \* rows of the detections table
MaxRawId == 9          \* raw particle ids of an arbitrary linker output are 0 .. MaxRawId

Positions == {<<0, 0>>, <<0, 1>>, <<1, 1>>, <<0, 3>>}   \* (y, x) centroids
SearchRanges == {1, 2, 3}
Memories == {0, 1, 2}

----------------------------------------------------------------------------
(* Generic helpers.                                                        *)

Min(a, b) == IF a <= b THEN a ELSE b

RECURSIVE SumOver(_, _)
SumOver(S, f) ==
    IF S = {} THEN 0
    ELSE LET e == CHOOSE x \in S : TRUE
         IN  f[e] + SumOver(S \ {e}, f)

SetMin(S) == CHOOSE m \in S : \A x \in S : m <= x

Range(s) == {s[i] : i \in DOMAIN s}

\* (y, x) lexicographic order, used to lay a frame's detections out as rows
PosLess(p, q) == p[1] < q[1] \/ (p[1] = q[1] /\ p[2] < q[2])

RECURSIVE SortedRows(_)
SortedRows(P) ==
    IF P = {} THEN <<>>
    ELSE LET p == CHOOSE x \in P : \A z \in P \ {x} : PosLess(x, z)
         IN  <<p>> \o SortedRows(P \ {p})

----------------------------------------------------------------------------
(* The linker behind tp.link_df, as the design describes it: frames in     *)
(* increasing order, a registry of active tracks (last position, frame     *)
(* last seen), a minimum-cost assignment under the search_range ceiling,   *)
(* unmatched detections start new tracks, tracks unmatched for more than   *)
(* `memory` frames are retired. Frames without detections count as frames. *)
(* adaptive_stop only acts on an assignment problem too large to solve,    *)
(* which the bounded tables never produce, and show_progress changes no    *)
(* result; neither is modelled.                                            *)

Dist2(p, q) == (p[1] - q[1]) * (p[1] - q[1]) + (p[2] - q[2]) * (p[2] - q[2])

\* a detection is a candidate for a track when it lies within the radius;
\* a displacement of exactly search_range is not linked
InRange(p, q, sr) == Dist2(p, q) < sr * sr

Candidates(S, D, sr) == {c \in S \X D : InRange(c[1].pos, c[2], sr)}

\* admissible assignments: each track takes at most one detection and each
\* detection goes to at most one track
Matchings(S, D, sr) ==
    {M \in SUBSET Candidates(S, D, sr) :
        \A a, b \in M : (a[1] = b[1]) <=> (a[2] = b[2])}

\* total squared displacement, plus search_range^2 for every track left
\* unlinked and for every link short of the largest possible number
LinkCost(M, S, D, sr) ==
    SumOver(M, [c \in M |-> Dist2(c[1].pos, c[2])])
        + sr * sr * (Cardinality(S) - Cardinality(M))
        + sr * sr * (Min(Cardinality(S), Cardinality(D)) - Cardinality(M))

BestMatchings(S, D, sr) ==
    {M \in Matchings(S, D, sr) :
        \A N \in Matchings(S, D, sr) :
            LinkCost(M, S, D, sr) <= LinkCost(N, S, D, sr)}

\* a track unmatched at frame t stays eligible while it has been absent for
\* at most `memory` frames
Remembered(a, t, mem) == t - a.last <= mem

\* ids of the detections of one frame, in row order: the linked track's id,
\* or a fresh id per unmatched detection
RECURSIVE AssignIds(_, _, _)
AssignIds(rows, M, next) ==
    IF rows = <<>> THEN <<>>
    ELSE LET d == Head(rows)
             src == {c \in M : c[2] = d}
         IN  IF src = {}
             THEN <<next>> \o AssignIds(Tail(rows), M, next + 1)
             ELSE <<(CHOOSE c \in src : TRUE)[1].id>>
                      \o AssignIds(Tail(rows), M, next)

NewCount(rows, M) == Cardinality({d \in Range(rows) : \A c \in M : c[2] # d})

----------------------------------------------------------------------------
(* track(): the call of tp.link_df and the renumbering of its ids.         *)

\* keyword arguments track() hands to tp.link_df
LinkArgsSwapped(sr, mem) == [search_range |-> mem, memory |-> sr]

LinkArgs(sr, mem) == [search_range |-> sr, memory |-> mem]

RelabelFromZero(id, ids) == id - SetMin(ids)

RelabelMinOnly(id, ids) == SetMin(ids) + 1

\* result["track_id"] - result["track_id"].min() + 1
Relabel(id, ids) == id - SetMin(ids) + 1

RawIds(rows) == {rows[i].particle : i \in DOMAIN rows}

TrackIds(rows) == {rows[i].track_id : i \in DOMAIN rows}

Track(sr, mem) ==
    /\ pc = "idle"
    /\ pc' = "link"
    /\ search_range' = sr
    /\ memory' = mem
    /\ link_kwargs' = LinkArgs(sr, mem)
    /\ UNCHANGED <<frame, active, nextId, linked, result>>
    /\ UNCHANGED <<msdVars, histVars, detVars, fitVars, analyzeVars, widgetVars,
                 objectVars, layerVars, featureVars>>

\* one frame of the linker: P are the centroids detected in this frame
LinkFrame(P) ==
    /\ pc = "link"
    /\ frame <= MaxFrame
    /\ Len(linked) + Cardinality(P) <= MaxRows
    /\ frame = 0 => P # {}
    /\ \E M \in BestMatchings(active, P, link_kwargs.search_range) :
         LET rows == SortedRows(P)
             ids == AssignIds(rows, M, nextId)
             kept == {a \in active :
                         /\ \A c \in M : c[1] # a
                         /\ Remembered(a, frame, link_kwargs.memory)}
         IN  /\ linked' = linked \o
                    [i \in DOMAIN rows |->
                        [frame |-> frame, pos |-> rows[i], particle |-> ids[i]]]
             /\ active' = kept \cup
                    {[id |-> ids[i], pos |-> rows[i], last |-> frame] :
                        i \in DOMAIN rows}
             /\ nextId' = nextId + NewCount(rows, M)
    /\ frame' = frame + 1
    /\ UNCHANGED <<pc, search_range, memory, link_kwargs, result>>
    /\ UNCHANGED <<msdVars, histVars, detVars, fitVars, analyzeVars, widgetVars,
                 objectVars, layerVars, featureVars>>

\* the table ends with its last non-empty frame
LinkReturn ==
    /\ pc = "link"
    /\ linked # <<>>
    /\ linked[Len(linked)].frame = frame - 1
    /\ pc' = "linked"
    /\ UNCHANGED <<search_range, memory, link_kwargs, frame, active, nextId,
                   linked, result>>
    /\ UNCHANGED <<msdVars, histVars, detVars, fitVars, analyzeVars, widgetVars,
                 objectVars, layerVars, featureVars>>

\* rename "particle" to "track_id" and shift the ids so the smallest is 1
TrackRelabel ==
    /\ pc = "linked"
    /\ result' = [i \in DOMAIN linked |->
                    [frame |-> linked[i].frame, pos |-> linked[i].pos,
                     track_id |-> Relabel(linked[i].particle, RawIds(linked))]]
    /\ pc' = "done"
    /\ UNCHANGED <<search_range, memory, link_kwargs, frame, active, nextId,
                   linked>>
    /\ UNCHANGED <<msdVars, histVars, detVars, fitVars, analyzeVars, widgetVars,
                 objectVars, layerVars, featureVars>>

\* msd() is not running
MsdIdle ==
    /\ msd_pc = "idle"
    /\ pos = [ncols |-> 2, rows |-> <<>>]
    /\ limit = 0
    /\ lagtimes = <<>>
    /\ lt = 0
    /\ msd_list = <<>>
    /\ msd_ret = <<>>

\* histogram() is not running
HistIdle ==
    /\ hist_pc = "idle"
    /\ data = <<>>
    /\ binsize = 1
    /\ samples = <<>>
    /\ bins = <<>>
    /\ hist = <<>>
    /\ edges = <<>>

\* a mask of no pixel, before any frame is taken
NoMask == <<>>

NoTable == [none |-> TRUE, rows |-> <<>>]

DetIdle ==
    /\ det_pc = "idle"
    /\ images = [ndim |-> 2, len |-> 1]
    /\ masks = [ndim |-> 2, len |-> 1]
    /\ det_i = 0
    /\ lab = NoMask
    /\ labels = NoMask
    /\ image_ndim = 2
    /\ labels_ndim = 2
    /\ det_result = NoTable
    /\ det_warnings = <<>>

NoFit == [d |-> <<0, 1>>, alfa |-> 0]

FitIdle ==
    /\ fit_pc = "idle"
    /\ msd_y = <<>>
    /\ delta = <<1, 1>>
    /\ best_value = NoFit
    /\ fit_ret = <<>>

AnalyzeIdle ==
    /\ an_pc = "idle"
    /\ tracks_df = <<>>
    /\ timedelay = <<1, 1>>
    /\ an_k = 0
    /\ current_track_msd = <<>>
    /\ current_track_fit_df = <<>>
    /\ an_error = ""
    /\ confined_tracks = <<>>
    /\ diffusive_tracks = <<>>
    /\ directed_tracks = <<>>

NoFeatures == [has_visibility |-> FALSE, visibility |-> <<>>, area |-> <<>>]

\* no tracks layer has been selected by add_graph()
NoTracksLayer == [present |-> FALSE, data |-> <<>>, original_tracks_df |-> <<>>]

WidgetIdle ==
    /\ tw_pc = "idle"
    /\ points = <<>>
    /\ features = NoFeatures
    /\ points_pd = <<>>
    /\ tw_columns = <<>>
    /\ tw_tracks = <<>>
    /\ tw_warnings = <<>>
    /\ tracks_layer = NoTracksLayer
    /\ tracks_info = 0
    /\ length_range = <<>>

\* ObjectDetection.__init__: no detections yet
NoObjects == [is_none |-> TRUE, rows |-> <<>>]

\* no call of get_objects_in_frame() since the detections last changed
NoReturn == [kind |-> "none", frame |-> -1, rows |-> <<>>]

ObjectsIdle ==
    /\ od_pc = "idle"
    /\ objects = NoObjects
    /\ od_ret = NoReturn

NoEvent == [kind |-> "none", type |-> "", emitted |-> FALSE, graph |-> ""]

LayersIdle ==
    /\ npl_pc = "idle"
    /\ viewer_layers = <<>>
    /\ layers_combo = <<>>
    /\ last_event = NoEvent

FeaturesIdle ==
    /\ fs_pc = "idle"
    /\ checked = {}
    /\ features_text = <<>>
    /\ fs_events = 0

Init ==
    /\ MsdIdle
    /\ HistIdle
    /\ DetIdle
    /\ FitIdle
    /\ AnalyzeIdle
    /\ WidgetIdle
    /\ ObjectsIdle
    /\ LayersIdle
    /\ FeaturesIdle
    /\ pc = "idle"
    /\ search_range = 0
    /\ memory = 0
    /\ link_kwargs = [search_range |-> 0, memory |-> 0]
    /\ frame = 0
    /\ active = {}
    /\ nextId = 0
    /\ linked = <<>>
    /\ result = <<>>

Next ==
    \/ \E sr \in SearchRanges, mem \in Memories : Track(sr, mem)
    \/ \E P \in SUBSET Positions : LinkFrame(P)
    \/ LinkReturn
    \/ TrackRelabel

Spec == Init /\ [][Next]_vars

----------------------------------------------------------------------------
(* The renumbering step of track() on its own: tp.link_df has returned a   *)
(* table with arbitrary raw particle ids.                                  *)

RawTables ==
    UNION {{[i \in 1..n |-> [frame |-> i - 1, pos |-> <<0, 0>>, particle |-> ids[i]]] :
                ids \in [1..n -> 0..MaxRawId]} : n \in 1..(MaxRows - 1)}

InitRelabel ==
    /\ MsdIdle
    /\ HistIdle
    /\ DetIdle
    /\ FitIdle
    /\ AnalyzeIdle
    /\ WidgetIdle
    /\ ObjectsIdle
    /\ LayersIdle
    /\ FeaturesIdle
    /\ pc = "linked"
    /\ search_range = 2
    /\ memory = 0
    /\ link_kwargs = LinkArgs(2, 0)
    /\ frame = 0
    /\ active = {}
    /\ nextId = 0
    /\ linked \in RawTables
    /\ result = <<>>

NextRelabel == TrackRelabel

SpecRelabel == InitRelabel /\ [][NextRelabel]_vars

----------------------------------------------------------------------------
(* Properties of track().                                                  *)

\* rows i and j are consecutive members of one track: same id, i earlier,
\* no member of the track in a frame between them
Consecutive(rows, i, j) ==
    /\ rows[i].track_id = rows[j].track_id
    /\ rows[i].frame < rows[j].frame
    /\ \A k \in DOMAIN rows :
          rows[k].track_id = rows[i].track_id =>
              ~(rows[i].frame < rows[k].frame /\ rows[k].frame < rows[j].frame)

\* row i is the last member of its track before frame f, and the track has
\* then been absent for at most mem frames
LastKnown(rows, i, f, mem) ==
    /\ rows[i].frame < f
    /\ f - rows[i].frame - 1 <= mem
    /\ \A k \in DOMAIN rows :
          rows[k].track_id = rows[i].track_id =>
              ~(rows[i].frame < rows[k].frame /\ rows[k].frame < f)

Contiguous(S) == \A a, b \in S : \A c \in a..b : c \in S

\* C1 as stated: after track() returns, the track ids are exactly 1..K,
\* K the number of distinct tracks, whatever raw ids the linker produced.
C1_IdsAreOneToK ==
    pc = "done" => TrackIds(result) = 1..Cardinality(TrackIds(result))

\* C1 amended: after track() returns, the smallest track id is 1, the ids
\* keep the differences of the raw ids (a uniform shift), and they are
\* exactly 1..K precisely when the raw ids are consecutive integers.
C1_MinShift ==
    pc = "done" =>
        /\ SetMin(TrackIds(result)) = 1
        /\ \A i, j \in DOMAIN result :
              result[i].track_id - result[j].track_id
                  = linked[i].particle - linked[j].particle
        /\ (TrackIds(result) = 1..Cardinality(TrackIds(result)))
              <=> Contiguous(RawIds(linked))

\* raw ids {4, 7, 9} come out as {1, 4, 6}
C1_Witness ==
    /\ pc = "done"
    /\ RawIds(linked) = {4, 7, 9}
    /\ TrackIds(result) = {1, 4, 6}

C3_FramesStrictlyIncreasing ==
    pc = "done" =>
        \A i, j \in DOMAIN result :
            (i < j /\ result[i].track_id = result[j].track_id)
                => result[i].frame < result[j].frame

\* a track of three rows next to a second detection in one of its frames
C3_Witness ==
    /\ pc = "done"
    /\ \E i, j, k \in DOMAIN result :
          /\ i < j /\ j < k
          /\ result[i].track_id = result[j].track_id
          /\ result[j].track_id = result[k].track_id
    /\ \E i, j \in DOMAIN result :
          i # j /\ result[i].frame = result[j].frame

\* C4: consecutive members of a track lie at most search_range apart, and
\* a detection with no remembered track within search_range is the first
\* member of its track.
C4_LinksWithinSearchRange ==
    pc = "done" =>
        /\ \A i, j \in DOMAIN result :
              Consecutive(result, i, j) =>
                  Dist2(result[i].pos, result[j].pos)
                      <= search_range * search_range
        /\ \A j \in DOMAIN result :
              (\A i \in DOMAIN result :
                    LastKnown(result, i, result[j].frame, memory) =>
                        Dist2(result[i].pos, result[j].pos)
                            > search_range * search_range)
              => \A i \in DOMAIN result :
                    result[i].track_id = result[j].track_id =>
                        result[i].frame >= result[j].frame

\* a link over a non-zero distance across a memory gap, and a detection out
\* of range of a remembered track that started a track of its own
C4_Witness ==
    /\ pc = "done"
    /\ \E i, j \in DOMAIN result :
          /\ Consecutive(result, i, j)
          /\ result[j].frame > result[i].frame + 1
          /\ Dist2(result[i].pos, result[j].pos) > 0
    /\ \E i, j \in DOMAIN result :
          /\ LastKnown(result, i, result[j].frame, memory)
          /\ Dist2(result[i].pos, result[j].pos) > search_range * search_range
          /\ \A k \in DOMAIN result :
                result[k].track_id = result[j].track_id =>
                    result[k].frame >= result[j].frame

----------------------------------------------------------------------------
(* Floating-point values: NaN, or an exact rational <<num, den>>, den > 0, *)
(* in lowest terms.                                                        *)

NaN == <<>>

IsNaN(a) == a = NaN

Abs(n) == IF n < 0 THEN -n ELSE n

RECURSIVE GCD(_, _)
GCD(a, b) == IF b = 0 THEN a ELSE GCD(b, a % b)

Norm(n, d) ==
    LET g == GCD(Abs(n), d)
    IN  <<n \div g, d \div g>>

Num(v) == <<v, 1>>

FAdd(a, b) ==
    IF IsNaN(a) \/ IsNaN(b) THEN NaN
    ELSE Norm(a[1] * b[2] + b[1] * a[2], a[2] * b[2])

FSub(a, b) ==
    IF IsNaN(a) \/ IsNaN(b) THEN NaN
    ELSE Norm(a[1] * b[2] - b[1] * a[2], a[2] * b[2])

FMul(a, b) ==
    IF IsNaN(a) \/ IsNaN(b) THEN NaN
    ELSE Norm(a[1] * b[1], a[2] * b[2])

FDivInt(a, n) == IF IsNaN(a) THEN NaN ELSE Norm(a[1], a[2] * n)

RECURSIVE FSum(_)
FSum(col) ==
    IF col = <<>> THEN Num(0) ELSE FAdd(Head(col), FSum(Tail(col)))

\* the entries of a column that are not NaN
NotNaN(col) == SelectSeq(col, LAMBDA a : ~IsNaN(a))

----------------------------------------------------------------------------
(* msd(pos, limit)                                                         *)

MaxPosRows == 3        \* rows of a position matrix
MaxLimit == 2          \* explicit limits are 1 .. MaxLimit
DefaultLimit == 25

Coords == {0, 3}
ColumnCounts == {1, 2, 3}
Limits == 1..MaxLimit \cup {DefaultLimit}

Entries == {NaN} \cup {Num(v) : v \in Coords}

\* Matrices of the accepted width carry arbitrary entries; the shape checks
\* do not read the entries, so matrices of another width are gap-free.
Matrices(c) ==
    UNION {{[ncols |-> c, rows |-> r] :
               r \in [1..n -> [1..c -> IF c = 2 THEN Entries
                                          ELSE {Num(v) : v \in Coords}]]} :
           n \in 0..MaxPosRows}

PosInputs == UNION {Matrices(c) : c \in ColumnCounts}

\* pos.shape
Shape(p) == <<Len(p.rows), p.ncols>>

\* pos.ndim of a position matrix
Ndim(p) == Len(Shape(p))

\* the ValueError msd() raises for this matrix, or "" if it raises none
ShapeErrorColumnsOnly(p) ==
    IF Shape(p)[2] # 2 THEN "pos should have 2 columns" ELSE ""

ShapeError(p) ==
    IF Shape(p)[2] # 2 THEN "pos should have 2 columns"
    ELSE IF Shape(p)[1] < 2 THEN "pos should have at least 2 rows"
    ELSE ""

PosColumns(p) == IF Ndim(p) > 2 THEN <<"x", "y", "z">> ELSE <<"x", "y">>

\* min(limit, len(pos[:, 0]) - 1)
LagLimitOffByOne(lim, n) == Min(lim, n)

LagLimit(lim, n) == Min(lim, n - 1)

\* np.arange(start, stop) of integers
Arange(start, stop) ==
    [i \in 1..(IF stop > start THEN stop - start ELSE 0) |-> start + i - 1]

\* pos[lt:] - pos[:-lt]
Diff(p, lag) ==
    LET n == Len(p.rows)
        m == IF n - lag > 0 THEN n - lag ELSE 0
    IN  [i \in 1..m |->
            [a \in 1..p.ncols |-> FSub(p.rows[i + lag][a], p.rows[i][a])]]

Column(d, a) == [i \in DOMAIN d |-> d[i][a]]

Identity(a) == a

\* diff**2, element by element
Sq(a) == FMul(a, a)

Squared(d) == [i \in DOMAIN d |-> [a \in DOMAIN d[i] |-> Sq(d[i][a])]]

\* np.mean of one column
Mean(col) ==
    IF col = <<>> THEN NaN ELSE FDivInt(FSum(col), Len(col))

\* np.mean in place of np.nanmean
MeanKeepingNaN(col) == Mean(col)

\* np.nanmean of one column: NaN when no entry remains
NanMean(col) == Mean(NotNaN(col))

\* np.nanmean(d, axis=0)
NanMeanAxis0(d, ncols) == [a \in 1..ncols |-> NanMean(Column(d, a))]

\* one row of msd_list: np.concatenate((nanmean(diff), nanmean(diff**2)))
LagRow(p, lag) ==
    NanMeanAxis0(Diff(p, lag), p.ncols)
        \o NanMeanAxis0(Squared(Diff(p, lag)), p.ncols)

\* DataFrame.sum(1): NaN entries are skipped
SkipNaSum(row) == FSum(NotNaN(row))

\* result[result_columns[-len(pos_columns):]].sum(1) of one row
MsdOfRow(row, k) == SkipNaSum(SubSeq(row, Len(row) - k + 1, Len(row)))

\* the two shape checks
MsdCheck ==
    /\ msd_pc = "call"
    /\ IF ShapeError(pos) # ""
       THEN /\ msd_pc' = "raised"
            /\ UNCHANGED <<lagtimes, lt>>
       ELSE /\ msd_pc' = "loop"
            /\ lagtimes' = Arange(1, LagLimit(limit, Len(pos.rows)) + 1)
            /\ lt' = 1
    /\ UNCHANGED <<pos, limit, msd_list, msd_ret>>
    /\ UNCHANGED <<trackVars, histVars, detVars, fitVars, analyzeVars, widgetVars,
                 objectVars, layerVars, featureVars>>

\* one iteration of the loop over lagtimes
MsdLag ==
    /\ msd_pc = "loop"
    /\ lt <= Len(lagtimes)
    /\ msd_list' = Append(msd_list, LagRow(pos, lagtimes[lt]))
    /\ lt' = lt + 1
    /\ UNCHANGED <<msd_pc, pos, limit, lagtimes, msd_ret>>
    /\ UNCHANGED <<trackVars, histVars, detVars, fitVars, analyzeVars, widgetVars,
                 objectVars, layerVars, featureVars>>

\* the DataFrame indexed by lagtimes, its "msd" column returned
MsdReturn ==
    /\ msd_pc = "loop"
    /\ lt > Len(lagtimes)
    /\ msd_ret' = [i \in DOMAIN msd_list |->
                     [lag |-> lagtimes[i],
                      msd |-> MsdOfRow(msd_list[i], Len(PosColumns(pos)))]]
    /\ msd_pc' = "done"
    /\ UNCHANGED <<pos, limit, lagtimes, lt, msd_list>>
    /\ UNCHANGED <<trackVars, histVars, detVars, fitVars, analyzeVars, widgetVars,
                 objectVars, layerVars, featureVars>>

TrackIdle ==
    /\ pc = "idle"
    /\ search_range = 0
    /\ memory = 0
    /\ link_kwargs = [search_range |-> 0, memory |-> 0]
    /\ frame = 0
    /\ active = {}
    /\ nextId = 0
    /\ linked = <<>>
    /\ result = <<>>

InitMsd ==
    /\ TrackIdle
    /\ HistIdle
    /\ DetIdle
    /\ FitIdle
    /\ AnalyzeIdle
    /\ WidgetIdle
    /\ ObjectsIdle
    /\ LayersIdle
    /\ FeaturesIdle
    /\ msd_pc = "call"
    /\ pos \in PosInputs
    /\ limit \in Limits
    /\ lagtimes = <<>>
    /\ lt = 0
    /\ msd_list = <<>>
    /\ msd_ret = <<>>

NextMsd ==
    \/ MsdCheck
    \/ MsdLag
    \/ MsdReturn

SpecMsd == InitMsd /\ [][NextMsd]_vars

----------------------------------------------------------------------------
(* Properties of msd().                                                    *)

GapFree(p) == \A i \in DOMAIN p.rows : \A a \in 1..p.ncols : ~IsNaN(p.rows[i][a])

\* squared displacement of the pair (i, i + lag) along axis a, as an integer
SqDisp(p, i, lag, a) ==
    LET d == p.rows[i + lag][a][1] - p.rows[i][a][1]
    IN  d * d

\* the pairs (i, i + lag) whose displacement along axis a is a number
ValidPairs(p, lag, a) ==
    {i \in 1..(Len(p.rows) - lag) :
        ~IsNaN(p.rows[i][a]) /\ ~IsNaN(p.rows[i + lag][a])}

\* the pairs whose displacement is a number along every axis
WholePairs(p, lag) ==
    {i \in 1..(Len(p.rows) - lag) :
        \A a \in 1..p.ncols : i \in ValidPairs(p, lag, a)}

AxisSum(p, lag, a, pairs) ==
    SumOver(pairs, [i \in pairs |-> SqDisp(p, i, lag, a)])

\* sum over the axes of the squared displacements of the given pairs
TotalSq(p, lag, pairs) ==
    SumOver(1..p.ncols, [a \in 1..p.ncols |-> AxisSum(p, lag, a, pairs)])

\* mean squared displacement along axis a over the pairs valid along a;
\* 0 when no pair is valid
AxisMeanSq(p, lag, a) ==
    IF ValidPairs(p, lag, a) = {} THEN Num(0)
    ELSE Norm(AxisSum(p, lag, a, ValidPairs(p, lag, a)),
              Cardinality(ValidPairs(p, lag, a)))

\* C5: for a gap-free matrix with N >= 2 rows, the value at each lag tau is
\* the sum over the axes of the squared displacements of all N - tau pairs
\* (i, i + tau), divided by N - tau.
C5_MsdIsMeanSquaredDisplacement ==
    (msd_pc = "done" /\ GapFree(pos)) =>
        \A k \in DOMAIN msd_ret :
            LET tau == msd_ret[k].lag
                n == Len(pos.rows)
            IN  msd_ret[k].msd = Norm(TotalSq(pos, tau, 1..(n - tau)), n - tau)

\* a gap-free three-row track with lags 1 and 2 and a non-integer mean
C5_Witness ==
    /\ msd_pc = "done"
    /\ GapFree(pos)
    /\ Len(msd_ret) = 2
    /\ msd_ret[1].msd[2] > 1
    /\ msd_ret[2].msd[1] > 0

\* C6: for N >= 2 rows and a limit >= 1 the series has min(limit, N - 1)
\* entries, indexed by the lags 1, 2, ... in increasing order.
C6_SeriesLength ==
    msd_pc = "done" =>
        /\ Len(msd_ret) = Min(limit, Len(pos.rows) - 1)
        /\ \A k \in DOMAIN msd_ret : msd_ret[k].lag = k

\* both cases of the cap: the limit cuts the series, and the rows do
C6_Witness ==
    /\ msd_pc = "done"
    /\ \/ (limit = 1 /\ Len(pos.rows) = 3 /\ Len(msd_ret) = 1)
       \/ (limit = DefaultLimit /\ Len(pos.rows) = 3 /\ Len(msd_ret) = 2)

\* C7 as stated: at each lag only the pairs whose displacement is a number
\* along every axis are averaged; a pair that is NaN in any coordinate
\* contributes to no axis.
C7_WholeRowsIgnored ==
    msd_pc = "done" =>
        \A k \in DOMAIN msd_ret :
            LET tau == msd_ret[k].lag
            IN  WholePairs(pos, tau) # {} =>
                    msd_ret[k].msd =
                        Norm(TotalSq(pos, tau, WholePairs(pos, tau)),
                             Cardinality(WholePairs(pos, tau)))

\* C7 amended: at each lag and for each axis separately, the pairs whose
\* displacement along that axis is NaN are ignored and the mean is taken
\* over the remaining pairs, which stay aligned to their lag; an axis with
\* no remaining pair contributes 0. When every NaN displacement is NaN along
\* all axes (whole-row gaps), this is the mean over the whole pairs.
C7_NaNIgnoredPerAxis ==
    msd_pc = "done" =>
        \A k \in DOMAIN msd_ret :
            LET tau == msd_ret[k].lag
            IN  /\ msd_ret[k].msd =
                        FAdd(AxisMeanSq(pos, tau, 1), AxisMeanSq(pos, tau, 2))
                /\ (/\ WholePairs(pos, tau) # {}
                    /\ \A a \in 1..pos.ncols :
                          ValidPairs(pos, tau, a) = WholePairs(pos, tau))
                   => msd_ret[k].msd =
                          Norm(TotalSq(pos, tau, WholePairs(pos, tau)),
                               Cardinality(WholePairs(pos, tau)))

\* a track whose middle row is NaN in one coordinate only: the lag-1 pairs
\* still count along the other axis
C7_Witness ==
    /\ msd_pc = "done"
    /\ Len(pos.rows) = 3
    /\ IsNaN(pos.rows[2][1]) /\ ~IsNaN(pos.rows[2][2])
    /\ WholePairs(pos, 1) = {}
    /\ Len(msd_ret) = 2
    /\ msd_ret[1].msd # Num(0)
    /\ msd_ret[2].msd # Num(0)

\* C8: a matrix with 3 columns and at least 2 rows is accepted and yields a
\* series, the sum of the mean squared displacements over the three axes.
C8_ThreeColumnsAccepted ==
    (msd_pc \in {"done", "raised"} /\ pos.ncols = 3 /\ Len(pos.rows) >= 2) =>
        /\ msd_pc = "done"
        /\ \A k \in DOMAIN msd_ret :
              msd_ret[k].msd =
                  Norm(TotalSq(pos, msd_ret[k].lag,
                               1..(Len(pos.rows) - msd_ret[k].lag)),
                       Len(pos.rows) - msd_ret[k].lag)

\* C9: with fewer than 2 rows msd() raises the ValueError, returns no
\* series, and has computed no displacement.
C9_TooFewRowsRaises ==
    (msd_pc # "call" /\ Len(pos.rows) < 2) =>
        /\ msd_pc = "raised"
        /\ msd_list = <<>>
        /\ msd_ret = <<>>

\* a one-row matrix of the accepted width was rejected
C9_Witness ==
    /\ msd_pc = "raised"
    /\ pos.ncols = 2
    /\ Len(pos.rows) = 1
    /\ msd_list = <<>>

----------------------------------------------------------------------------
(* histogram(data, binsize)                                                *)

MaxSamples == 5        \* samples of a data sequence
DefaultBinsize == 5

HistValues == 1..5
BinSizes == {1, 2, DefaultBinsize}

DataInputs ==
    UNION {[1..n -> {NaN} \cup {Num(v) : v \in HistValues}] : n \in 0..MaxSamples}

SetMax(S) == CHOOSE m \in S : \A x \in S : m >= x

NanFilteredFromThree(d) == IF Len(d) > 2 THEN NotNaN(d) ELSE d

\* if len(data) > 1: data = data[~np.isnan(data)]
NanFiltered(d) == IF Len(d) > 1 THEN NotNaN(d) ELSE d

Finite(d) == \A i \in DOMAIN d : ~IsNaN(d[i])

SampleValues(d) == {d[i][1] : i \in DOMAIN d}

\* the exception of the try block for these samples, or "" if there is none:
\* np.min of no sample, np.arange from NaN to NaN
TryError(d) ==
    IF d = <<>> THEN "zero-size array to reduction operation minimum"
    ELSE IF ~Finite(d) THEN "arange: cannot compute length"
    ELSE ""

CeilDiv(a, b) == (a + b - 1) \div b

\* np.arange(start, stop, step): start + i * step for i < ceil((stop - start) / step)
ArangeStep(start, stop, step) ==
    [i \in 1..(IF stop > start THEN CeilDiv(stop - start, step) ELSE 0) |->
        start + (i - 1) * step]

SpanMaxWithoutFallback(vmin, vmax) == vmax

\* vmax after the degenerate-span fallback
SpanMax(vmin, vmax) == IF vmin = vmax THEN vmin + 1 ELSE vmax

BinsWithoutLastEdge(vmin, vmax, step) == ArangeStep(vmin, SpanMax(vmin, vmax), step)

\* bins = list(np.arange(vmin, vmax, binsize)); bins.append(bins[-1] + binsize)
Bins(vmin, vmax, step) ==
    LET b == ArangeStep(vmin, SpanMax(vmin, vmax), step)
    IN  Append(b, b[Len(b)] + step)

CountsHalfOpen(d, e) ==
    [k \in 1..(Len(e) - 1) |->
        Cardinality({i \in DOMAIN d : e[k] <= d[i][1] /\ d[i][1] < e[k + 1]})]

\* np.histogram(d, bins=e): bins are half-open, the last one is closed
Counts(d, e) ==
    [k \in 1..(Len(e) - 1) |->
        Cardinality({i \in DOMAIN d :
            /\ e[k] <= d[i][1]
            /\ IF k = Len(e) - 1 THEN d[i][1] <= e[k + 1] ELSE d[i][1] < e[k + 1]})]

\* the exception of the whole try block: the ones of TryError, or the
\* IndexError of bins[-1] when np.arange returned no edge
BinsError(d, step) ==
    IF TryError(d) # "" THEN TryError(d)
    ELSE IF ArangeStep(SetMin(SampleValues(d)),
                       SpanMax(SetMin(SampleValues(d)), SetMax(SampleValues(d))),
                       step) = <<>>
         THEN "list index out of range"
         ELSE ""

\* the try block: filter, range, bin edges; any exception is re-raised
HistogramTry ==
    /\ hist_pc = "call"
    /\ samples' = NanFiltered(data)
    /\ IF BinsError(NanFiltered(data), binsize) # ""
       THEN /\ hist_pc' = "raised"
            /\ UNCHANGED bins
       ELSE /\ hist_pc' = "binned"
            /\ bins' = Bins(SetMin(SampleValues(NanFiltered(data))),
                            SetMax(SampleValues(NanFiltered(data))), binsize)
    /\ UNCHANGED <<data, binsize, hist, edges>>
    /\ UNCHANGED <<trackVars, msdVars, detVars, fitVars, analyzeVars, widgetVars,
                 objectVars, layerVars, featureVars>>

\* hist, edges = np.histogram(data, bins=bins); return hist, edges, binsize
HistogramCount ==
    /\ hist_pc = "binned"
    /\ hist' = Counts(samples, bins)
    /\ edges' = bins
    /\ hist_pc' = "done"
    /\ UNCHANGED <<data, binsize, samples, bins>>
    /\ UNCHANGED <<trackVars, msdVars, detVars, fitVars, analyzeVars, widgetVars,
                 objectVars, layerVars, featureVars>>

InitHist ==
    /\ TrackIdle
    /\ MsdIdle
    /\ DetIdle
    /\ FitIdle
    /\ AnalyzeIdle
    /\ WidgetIdle
    /\ ObjectsIdle
    /\ LayersIdle
    /\ FeaturesIdle
    /\ hist_pc = "call"
    /\ data \in DataInputs
    /\ binsize \in BinSizes
    /\ samples = <<>>
    /\ bins = <<>>
    /\ hist = <<>>
    /\ edges = <<>>

NextHist ==
    \/ HistogramTry
    \/ HistogramCount

SpecHist == InitHist /\ [][NextHist]_vars

----------------------------------------------------------------------------
(* Properties of histogram().                                              *)

Spaced(e, step) == \A k \in 1..(Len(e) - 1) : e[k + 1] - e[k] = step

\* C10 as stated: for finite data with min < max the edges start at
\* min(data), end at max(data) + binsize and are binsize apart.
C10_EdgesSpanMinToMaxPlusBinsize ==
    (hist_pc = "done" /\ Finite(data)
        /\ SetMin(SampleValues(data)) < SetMax(SampleValues(data))) =>
        /\ edges[1] = SetMin(SampleValues(data))
        /\ edges[Len(edges)] = SetMax(SampleValues(data)) + binsize
        /\ Spaced(edges, binsize)

\* C10 amended: for finite data with min < max the edges start at
\* min(data), are binsize apart, and end at the first value
\* min(data) + k * binsize that is not below max(data), so the last edge is
\* at least max(data) and less than max(data) + binsize; for
\* data = [1,2,3,4,5] and binsize = 1 the edges are [1,2,3,4,5].
C10_EdgesEndAtFirstStepPastMax ==
    (hist_pc = "done" /\ Finite(data)
        /\ SetMin(SampleValues(data)) < SetMax(SampleValues(data))) =>
        /\ edges[1] = SetMin(SampleValues(data))
        /\ Spaced(edges, binsize)
        /\ edges[Len(edges)] >= SetMax(SampleValues(data))
        /\ edges[Len(edges)] < SetMax(SampleValues(data)) + binsize
        /\ (data = <<Num(1), Num(2), Num(3), Num(4), Num(5)>> /\ binsize = 1)
              => edges = <<1, 2, 3, 4, 5>>

C10_Witness ==
    /\ hist_pc = "done"
    /\ data = <<Num(1), Num(2), Num(3), Num(4), Num(5)>>
    /\ binsize = 1
    /\ edges = <<1, 2, 3, 4, 5>>
    /\ hist = <<1, 1, 1, 2>>

\* the sum of a sequence of counts
RECURSIVE Total(_)
Total(h) == IF h = <<>> THEN 0 ELSE h[1] + Total(Tail(h))

\* C11: for non-empty data without NaN every sample is counted once: the
\* counts sum to the number of samples, the first edge is the minimum and
\* the maximum is not above the last edge (it falls in the closed last bin).
C11_CountsSumToSamples ==
    (hist_pc = "done" /\ Finite(data) /\ data # <<>>) =>
        /\ Total(hist) = Len(data)
        /\ Len(hist) = Len(edges) - 1
        /\ edges[1] = SetMin(SampleValues(data))
        /\ SetMax(SampleValues(data)) <= edges[Len(edges)]
        /\ SetMax(SampleValues(data)) >= edges[Len(edges) - 1]
        /\ hist[Len(hist)] >= 1

\* the maximum sits exactly on the last edge and is still counted
C11_Witness ==
    /\ hist_pc = "done"
    /\ data = <<Num(5), Num(1), Num(3), Num(5)>>
    /\ binsize = 2
    /\ edges = <<1, 3, 5>>
    /\ hist = <<1, 3>>

Constant(d) ==
    /\ d # <<>>
    /\ Finite(d)
    /\ SetMin(SampleValues(d)) = SetMax(SampleValues(d))

\* C12 as stated: on constant data and on empty data histogram() raises
\* nothing and returns well-defined edges and counts.
C12_NeverRaisesOnDegenerateData ==
    (hist_pc \in {"done", "raised"} /\ (Constant(data) \/ data = <<>>)) =>
        /\ hist_pc = "done"
        /\ Len(edges) >= 2
        /\ Len(hist) = Len(edges) - 1

\* C12 amended: on constant data (min = max = v) histogram() raises
\* nothing; the span falls back to [v, v + 1], so the edges start at v, are
\* binsize apart and end at the first one not below v + 1, and all samples
\* are counted in the first bin.  On empty data the minimum of no sample
\* raises, and the exception is re-raised: no edges, no counts.
C12_ConstantFallsBackEmptyRaises ==
    /\ (hist_pc \in {"done", "raised"} /\ Constant(data)) =>
          /\ hist_pc = "done"
          /\ edges[1] = SetMin(SampleValues(data))
          /\ Spaced(edges, binsize)
          /\ edges[Len(edges)] >= SetMin(SampleValues(data)) + 1
          /\ edges[Len(edges)] < SetMin(SampleValues(data)) + 1 + binsize
          /\ hist[1] = Len(data)
          /\ Total(hist) = Len(data)
    /\ (hist_pc # "call" /\ data = <<>>) =>
          /\ hist_pc = "raised"
          /\ edges = <<>>
          /\ hist = <<>>

\* constant data were binned through the fallback span
C12_Witness ==
    /\ hist_pc = "done"
    /\ data = <<Num(3), Num(3), Num(3)>>
    /\ binsize = DefaultBinsize
    /\ edges = <<3, 8>>
    /\ hist = <<3>>

\* C13: for data with more than one sample the outcome is the one of the
\* data with its NaN entries removed: the edges and counts of the remaining
\* samples when one remains, the raised error when every sample is NaN.
C13_NaNRemovedBeforeBinning ==
    (hist_pc \in {"done", "raised"} /\ Len(data) > 1) =>
        LET clean == NanFiltered(NotNaN(data))
        IN  IF NotNaN(data) = <<>>
            THEN /\ hist_pc = "raised"
                 /\ BinsError(clean, binsize) # ""
                 /\ edges = <<>>
                 /\ hist = <<>>
            ELSE /\ hist_pc = "done"
                 /\ BinsError(clean, binsize) = ""
                 /\ edges = Bins(SetMin(SampleValues(clean)),
                                 SetMax(SampleValues(clean)), binsize)
                 /\ hist = Counts(clean, edges)
                 /\ Total(hist) = Len(NotNaN(data))

\* one sample is left of two, and it is binned alone
C13_Witness ==
    /\ hist_pc = "done"
    /\ data = <<NaN, Num(4)>>
    /\ binsize = 1
    /\ samples = <<Num(4)>>
    /\ edges = <<4, 5>>
    /\ hist = <<1>>

----------------------------------------------------------------------------
(* libs/_object_detection.py: get_frame_regions_properties() and           *)
(* get_timeseries_regions_properties().                                    *)
(*                                                                         *)
(* A frame is a grid of GridRows x GridCols pixels; a mask gives every     *)
(* pixel a label value, 0 being the background.  Of the measured           *)
(* properties the table keeps frame, label and area.                       *)

GridRows == 0..1
GridCols == 0..2
Pixels == GridRows \X GridCols
LabelValues == {0, 1, 2}
\* the masks of a frame: every binary mask, and every mask in which one pixel
\* carries a second label value
Masks == {m \in [Pixels -> LabelValues] : Cardinality({p \in Pixels : m[p] = 2}) <= 1}

StackNdims == {2, 3, 4}     \* ndim of images and of masks
StackSizes == {1, 2}        \* frames of a stack with ndim > 2
FrameNdims == {1, 2, 3}     \* ndim of the arguments of a direct frame call

Max(a, b) == IF a >= b THEN a ELSE b

NeighboursFourConnected(p, q) == Abs(p[1] - q[1]) + Abs(p[2] - q[2]) = 1

\* neighbours under full connectivity (skimage's default for measure.label)
Neighbours(p, q) ==
    /\ p # q
    /\ Abs(p[1] - q[1]) <= 1
    /\ Abs(p[2] - q[2]) <= 1

\* raster order of the pixels
Before(p, q) == p[1] < q[1] \/ (p[1] = q[1] /\ p[2] < q[2])

First(S) == CHOOSE p \in S : \A q \in S : p = q \/ Before(p, q)

\* the pixels connected to S through neighbours of value v
RECURSIVE Flood(_, _, _)
Flood(m, v, S) ==
    LET T == S \cup {q \in Pixels : m[q] = v /\ \E p \in S : Neighbours(p, q)}
    IN  IF T = S THEN S ELSE Flood(m, v, T)

\* two pixels are connected when they are neighbours and have the same value
Region(m, p) == Flood(m, m[p], {p})

Components(m) == {Region(m, p) : p \in {q \in Pixels : m[q] # 0}}

Binarized(m) == [p \in Pixels |-> IF m[p] = 0 THEN 0 ELSE 1]

MeasureLabelOfForeground(m) ==
    LET comps == Components(Binarized(m))
        firsts == {First(C) : C \in comps}
    IN  [p \in Pixels |->
            IF m[p] = 0 THEN 0
            ELSE LET f == First(CHOOSE C \in comps : p \in C)
                 IN  Cardinality({g \in firsts : g = f \/ Before(g, f)})]

\* measure.label(lab): background 0, the connected regions of equal value
\* numbered from 1 in raster order
MeasureLabel(m) ==
    LET comps == Components(m)
        firsts == {First(C) : C \in comps}
    IN  [p \in Pixels |->
            IF m[p] = 0 THEN 0
            ELSE LET f == First(CHOOSE C \in comps : p \in C)
                 IN  Cardinality({g \in firsts : g = f \/ Before(g, f)})]

\* the elements of a set of numbers in increasing order
Sorted(S) ==
    [k \in 1..Cardinality(S) |->
        CHOOSE x \in S : Cardinality({y \in S : y < x}) = k - 1]

\* measure.regionprops_table(labels, ...): one row per nonzero label value
RegionpropsTable(frame_number, lbl) ==
    LET present == Sorted({lbl[p] : p \in Pixels} \ {0})
    IN  [k \in DOMAIN present |->
            [frame |-> frame_number,
             label |-> present[k],
             area  |-> Cardinality({p \in Pixels : lbl[p] = present[k]})]]

\* the exception of measure.regionprops_table for arrays of these ndim
RegionpropsError(indim, ldim) ==
    IF ldim \notin {2, 3} THEN "Only 2-D and 3-D images supported."
    ELSE IF indim # ldim THEN "Label and intensity image shapes must match."
    ELSE ""

\* if image.ndim > 2: / if labels.ndim > 2:
NdimRejected(ndim) == ndim > 2

\* get_frame_regions_properties: None with a warning, an exception, or a table
FrameRegionsProperties(frame_number, indim, ldim, lbl) ==
    IF NdimRejected(indim)
    THEN [status |-> "none", warning |-> "Only 2D images are supported.", rows |-> <<>>]
    ELSE IF NdimRejected(ldim)
    THEN [status |-> "none", warning |-> "Only 2D labels are supported.", rows |-> <<>>]
    ELSE IF RegionpropsError(indim, ldim) # ""
    THEN [status |-> "raised", warning |-> "", rows |-> <<>>]
    ELSE [status |-> "table", warning |-> "",
          rows |-> RegionpropsTable(frame_number, lbl)]

AsTable(out) == [none |-> out.status = "none", rows |-> out.rows]

Warned(w, out) == IF out.warning = "" THEN w ELSE Append(w, out.warning)

\* pd.concat([a, b]): None objects are dropped; all None is a ValueError
ConcatError(a, b) == IF a.none /\ b.none THEN "All objects passed were None" ELSE ""

Concat(a, b) == [none |-> FALSE, rows |-> a.rows \o b.rows]

\* ndim of a frame of a stack, after np.expand_dims of a 2-D input
FrameNdim(stack) == Max(stack.ndim, 3) - 1

\* frames zip(images, masks) yields
ZipLen(a, b) == Min(a.len, b.len)

\* get_timeseries_regions_properties is called; 2-D inputs become one frame
SeriesCall ==
    /\ det_pc = "call"
    /\ det_pc' = "loop"
    /\ UNCHANGED <<images, masks, det_i, lab, labels, image_ndim, labels_ndim,
                   det_result, det_warnings>>
    /\ UNCHANGED <<trackVars, msdVars, histVars, fitVars, analyzeVars, widgetVars,
                 objectVars, layerVars, featureVars>>

\* masks of the frames of a stack: any mask for a 2-D frame, a volume of
\* one value for a frame with a further axis
FrameMasks(ndim) ==
    IF ndim = 2 THEN Masks ELSE {[p \in Pixels |-> v] : v \in LabelValues}

\* one iteration of the loop over the frames
SeriesFrame ==
    /\ det_pc = "loop"
    /\ det_i < ZipLen(images, masks)
    /\ \E m \in FrameMasks(Max(FrameNdim(images), FrameNdim(masks))) :
        LET lbl == MeasureLabel(m)
            out == FrameRegionsProperties(det_i, FrameNdim(images),
                                          FrameNdim(masks), lbl)
        IN  /\ lab' = m
            /\ labels' = lbl
            /\ image_ndim' = FrameNdim(images)
            /\ labels_ndim' = FrameNdim(masks)
            /\ det_warnings' = Warned(det_warnings, out)
            /\ IF out.status = "raised"
               THEN /\ det_pc' = "raised"
                    /\ UNCHANGED det_result
               ELSE IF det_i = 0
               THEN /\ det_pc' = "loop"
                    /\ det_result' = AsTable(out)
               ELSE IF ConcatError(det_result, AsTable(out)) # ""
               THEN /\ det_pc' = "raised"
                    /\ UNCHANGED det_result
               ELSE /\ det_pc' = "loop"
                    /\ det_result' = Concat(det_result, AsTable(out))
    /\ det_i' = det_i + 1
    /\ UNCHANGED <<images, masks>>
    /\ UNCHANGED <<trackVars, msdVars, histVars, fitVars, analyzeVars, widgetVars,
                 objectVars, layerVars, featureVars>>

\* return result
SeriesReturn ==
    /\ det_pc = "loop"
    /\ det_i = ZipLen(images, masks)
    /\ det_pc' = "returned"
    /\ UNCHANGED <<images, masks, det_i, lab, labels, image_ndim, labels_ndim,
                   det_result, det_warnings>>
    /\ UNCHANGED <<trackVars, msdVars, histVars, fitVars, analyzeVars, widgetVars,
                 objectVars, layerVars, featureVars>>

\* a direct call of get_frame_regions_properties(0, image, labels)
FrameCall ==
    /\ det_pc = "frame_call"
    /\ \E m \in FrameMasks(labels_ndim) :
        LET out == FrameRegionsProperties(0, image_ndim, labels_ndim, m)
        IN  /\ labels' = m
            /\ det_warnings' = Warned(det_warnings, out)
            /\ det_result' = AsTable(out)
            /\ det_pc' = IF out.status = "raised" THEN "frame_raised"
                                                  ELSE "frame_returned"
    /\ UNCHANGED <<images, masks, det_i, lab, image_ndim, labels_ndim>>
    /\ UNCHANGED <<trackVars, msdVars, histVars, fitVars, analyzeVars, widgetVars,
                 objectVars, layerVars, featureVars>>

Stacks ==
    {[ndim |-> n, len |-> l] : n \in StackNdims, l \in StackSizes}
        \ {[ndim |-> 2, len |-> l] : l \in StackSizes \ {1}}

InitDetect ==
    /\ TrackIdle
    /\ MsdIdle
    /\ HistIdle
    /\ FitIdle
    /\ AnalyzeIdle
    /\ WidgetIdle
    /\ ObjectsIdle
    /\ LayersIdle
    /\ FeaturesIdle
    /\ det_i = 0
    /\ lab = NoMask
    /\ labels = NoMask
    /\ det_result = NoTable
    /\ det_warnings = <<>>
    /\ \/ /\ det_pc = "call"
          /\ images \in Stacks
          /\ masks \in Stacks
          /\ image_ndim = 2
          /\ labels_ndim = 2
       \/ /\ det_pc = "frame_call"
          /\ images = [ndim |-> 2, len |-> 1]
          /\ masks = [ndim |-> 2, len |-> 1]
          /\ image_ndim \in FrameNdims
          /\ labels_ndim \in FrameNdims

NextDetect ==
    \/ SeriesCall
    \/ SeriesFrame
    \/ SeriesReturn
    \/ FrameCall

SpecDetect == InitDetect /\ [][NextDetect]_vars

----------------------------------------------------------------------------
(* Properties of the detection functions.                                  *)

\* a frame of the stack was taken and measured: both arrays were 2-D
FrameMeasured ==
    /\ det_pc \in {"loop", "returned"}
    /\ det_i >= 1
    /\ image_ndim = 2
    /\ labels_ndim = 2

\* the rows of the table for one frame
FrameRows(f) == SelectSeq(det_result.rows, LAMBDA r : r.frame = f)

\* pixels that share an edge or a corner
Touch(p, q) ==
    /\ p # q
    /\ p[1] - q[1] \in {-1, 0, 1}
    /\ p[2] - q[2] \in {-1, 0, 1}

\* the rows and the components agree in number, and for every size as many
\* rows have that area as components have that many pixels
RowsMeasure(rows, comps) ==
    /\ Len(rows) = Cardinality(comps)
    /\ \A n \in 1..Cardinality(Pixels) :
          Cardinality({k \in DOMAIN rows : rows[k].area = n})
              = Cardinality({C \in comps : Cardinality(C) = n})

C16_NonTwoDimensionalRejected ==
    (det_pc \in {"frame_returned", "frame_raised"}
        /\ (image_ndim # 2 \/ labels_ndim # 2)) =>
        /\ det_pc = "frame_returned"
        /\ det_warnings # <<>>
        /\ det_result.none
        /\ det_result.rows = <<>>

\* C17: when a frame of the stack is rejected, with a warning, or fails,
\* get_timeseries_regions_properties raises, for one frame as for more.
C17_RejectedFrameRaises ==
    (det_pc \in {"returned", "raised"} /\ det_warnings # <<>>) =>
        det_pc = "raised"

----------------------------------------------------------------------------
(* basic_msd_fit(msd_y, delta, fit_function, maxfev)                       *)
(*                                                                         *)
(* curve_fit is the optimizer of scipy: the parameters it returns are any  *)
(* of BestValues, or it raises.  The exponents are integers, so the fitted *)
(* curve is an exact rational.                                             *)

MaxSeries == 3         \* values of an MSD series

MsdValues == {NaN, Num(0), Num(9)}
Deltas == {<<1, 1>>, <<19, 5>>}
BestValues == {[d |-> <<1, 4>>, alfa |-> a] : a \in {0, 1, 2}}

SeriesInputs == UNION {[1..n -> MsdValues] : n \in 0..MaxSeries}

NotConverged == "Optimal parameters not found"

\* the exception curve_fit raises for these data whatever the optimizer does
CurveFitError(y) ==
    IF \E i \in DOMAIN y : IsNaN(y[i]) THEN "array must not contain infs or NaNs"
    ELSE IF y = <<>> THEN "ydata must not be empty"
    ELSE IF Len(y) < 2 THEN "Improper input: N=2 must not exceed M=1"
    ELSE ""

FitTimesFromZero(n, dt) == [i \in 1..n |-> FMul(Num(i - 1), dt)]

\* x = np.array(list(range(1, len(y) + 1))) * delta
FitTimes(n, dt) == [i \in 1..n |-> FMul(Num(i), dt)]

\* np.power(t, k) for an exponent k in 0, 1, 2, ...
RECURSIVE FPow(_, _)
FPow(t, k) == IF k = 0 THEN Num(1) ELSE FMul(t, FPow(t, k - 1))

\* (4 * d) * np.power(delta, alfa)
MsdFitFunction(t, d, alfa) == FMul(FMul(Num(4), d), FPow(t, alfa))

\* the DataFrame of alpha, fit and diffusion_coefficient, indexed by x
FitTable(y, dt, bv) ==
    [i \in 1..Len(y) |->
        [index |-> FitTimes(Len(y), dt)[i],
         alpha |-> bv.alfa,
         fit |-> MsdFitFunction(FitTimes(Len(y), dt)[i], bv.d, bv.alfa),
         diffusion_coefficient |-> bv.d]]

\* y, x and the call of curve_fit
FitCurve ==
    /\ fit_pc = "call"
    /\ IF CurveFitError(msd_y) # ""
       THEN /\ fit_pc' = "raised"
            /\ UNCHANGED best_value
       ELSE \/ /\ fit_pc' = "raised"
               /\ UNCHANGED best_value
            \/ /\ fit_pc' = "fitted"
               /\ best_value' \in BestValues
    /\ UNCHANGED <<msd_y, delta, fit_ret>>
    /\ UNCHANGED <<trackVars, msdVars, histVars, detVars, analyzeVars, widgetVars,
                 objectVars, layerVars, featureVars>>

\* the fitted curve and the returned DataFrame
FitReturn ==
    /\ fit_pc = "fitted"
    /\ fit_ret' = FitTable(msd_y, delta, best_value)
    /\ fit_pc' = "done"
    /\ UNCHANGED <<msd_y, delta, best_value>>
    /\ UNCHANGED <<trackVars, msdVars, histVars, detVars, analyzeVars, widgetVars,
                 objectVars, layerVars, featureVars>>

InitFit ==
    /\ TrackIdle
    /\ MsdIdle
    /\ HistIdle
    /\ DetIdle
    /\ AnalyzeIdle
    /\ WidgetIdle
    /\ ObjectsIdle
    /\ LayersIdle
    /\ FeaturesIdle
    /\ fit_pc = "call"
    /\ msd_y \in SeriesInputs
    /\ delta \in Deltas
    /\ best_value = NoFit
    /\ fit_ret = <<>>

NextFit ==
    \/ FitCurve
    \/ FitReturn

SpecFit == InitFit /\ [][NextFit]_vars

----------------------------------------------------------------------------
(* TracksAnaysisWidget._analyze(): the MSD of every track, then the fit of *)
(* every MSD series, each by one groupby("track_id").apply(...) whose      *)
(* function is called group by group in track_id order.                    *)

TrackLengths == {1, 2, 3, 4}   \* rows of a track
TableSizes == {1, 2, 3}     \* tracks of a tracks table

TrackPoints == {<<Num(0), Num(0)>>, <<Num(3), Num(0)>>}

\* the x, y rows of a track that starts at the origin
TrackPaths ==
    UNION {{r \in [1..n -> TrackPoints] : r[1] = <<Num(0), Num(0)>>} :
           n \in TrackLengths}

TracksTables ==
    UNION {[1..k -> {[ncols |-> 2, rows |-> r] : r \in TrackPaths}] :
           k \in TableSizes}

\* msd(pos) of a matrix that passes the shape checks: the "msd" column
MsdSeries(p, lim) ==
    [k \in 1..LagLimit(lim, Len(p.rows)) |->
        MsdOfRow(LagRow(p, k), Len(PosColumns(p)))]

\* groupby("track_id").apply(lambda x: msd(x[["x", "y"]].to_numpy())): one group
AnalyzeMsd ==
    /\ an_pc = "msd"
    /\ an_k <= Len(tracks_df)
    /\ IF ShapeError(tracks_df[an_k]) # ""
       THEN /\ an_pc' = "raised"
            /\ an_error' = ShapeError(tracks_df[an_k])
            /\ UNCHANGED <<an_k, current_track_msd>>
       ELSE /\ current_track_msd' =
                  Append(current_track_msd, MsdSeries(tracks_df[an_k], DefaultLimit))
            /\ an_k' = an_k + 1
            /\ UNCHANGED <<an_pc, an_error>>
    /\ UNCHANGED <<tracks_df, timedelay, current_track_fit_df,
                   confined_tracks, diffusive_tracks, directed_tracks>>
    /\ UNCHANGED <<trackVars, msdVars, histVars, detVars, fitVars, widgetVars,
                 objectVars, layerVars, featureVars>>

\* the MSD of every track is there; the fit starts with the first series
AnalyzeMsdDone ==
    /\ an_pc = "msd"
    /\ an_k > Len(tracks_df)
    /\ an_pc' = "fit"
    /\ an_k' = 1
    /\ UNCHANGED <<tracks_df, timedelay, current_track_msd, current_track_fit_df,
                   an_error, confined_tracks, diffusive_tracks, directed_tracks>>
    /\ UNCHANGED <<trackVars, msdVars, histVars, detVars, fitVars, widgetVars,
                 objectVars, layerVars, featureVars>>

\* apply() stacks the returned series under a (track_id, lag) index when
\* their lag indexes differ; series with one and the same lag index become
\* the rows of a DataFrame with one column per lag
WideTable(series) ==
    \A i, j \in DOMAIN series : Len(series[i]) = Len(series[j])

\* x.to_numpy() of one group: the series of the track, or the 1 x N array of
\* its row of the wide DataFrame
FitInput(series, k) ==
    IF WideTable(series) THEN [ndim |-> 2, len |-> 1, values |-> series[k]]
    ELSE [ndim |-> 1, len |-> Len(series[k]), values |-> series[k]]

\* the exception curve_fit raises for y: its residuals have len(y) rows
ArrayFitError(y) ==
    IF CurveFitError(y.values) # "" THEN CurveFitError(y.values)
    ELSE IF y.len < 2 THEN "Improper input: N=2 must not exceed M=1"
    ELSE ""

\* groupby("track_id").apply(lambda x: _basic_fit_partial(x.to_numpy())): one group
AnalyzeFit ==
    /\ an_pc = "fit"
    /\ an_k <= Len(current_track_msd)
    /\ IF ArrayFitError(FitInput(current_track_msd, an_k)) # ""
       THEN /\ an_pc' = "raised"
            /\ an_error' = ArrayFitError(FitInput(current_track_msd, an_k))
            /\ UNCHANGED <<an_k, current_track_fit_df>>
       ELSE \/ /\ an_pc' = "raised"
               /\ an_error' = NotConverged
               /\ UNCHANGED <<an_k, current_track_fit_df>>
            \/ /\ \E bv \in BestValues :
                    current_track_fit_df' =
                        Append(current_track_fit_df,
                               FitTable(current_track_msd[an_k], timedelay, bv))
               /\ an_k' = an_k + 1
               /\ UNCHANGED <<an_pc, an_error>>
    /\ UNCHANGED <<tracks_df, timedelay, current_track_msd,
                   confined_tracks, diffusive_tracks, directed_tracks>>
    /\ UNCHANGED <<trackVars, msdVars, histVars, detVars, fitVars, widgetVars,
                 objectVars, layerVars, featureVars>>

\* a < b for floats; a comparison with NaN is False
FLess(a, b) == ~IsNaN(a) /\ ~IsNaN(b) /\ a[1] * b[2] < b[1] * a[2]

ConfinedBelow == <<2, 5>>      \* 0.4
DirectedAbove == <<6, 5>>      \* 1.2

\* the rows of the concatenated fit tables under their (track_id, time) index
RECURSIVE FitRows(_, _)
FitRows(dfs, k) ==
    IF k > Len(dfs) THEN <<>>
    ELSE [i \in DOMAIN dfs[k] |->
            [track_id |-> k,
             index |-> dfs[k][i].index,
             alpha |-> Num(dfs[k][i].alpha),
             fit |-> dfs[k][i].fit,
             diffusion_coefficient |-> dfs[k][i].diffusion_coefficient]]
         \o FitRows(dfs, k + 1)

\* a cell of the three masks: df < 0.4, (df >= 0.4) & (df <= 1.2), df > 1.2
Keeps(mask, v) ==
    CASE mask = "confined" -> FLess(v, ConfinedBelow)
      [] mask = "diffusive" -> /\ ~IsNaN(v)
                               /\ ~FLess(v, ConfinedBelow)
                               /\ ~FLess(DirectedAbove, v)
      [] mask = "directed" -> FLess(DirectedAbove, v)

\* df[mask] for a boolean DataFrame mask: every row is kept, the cells the
\* mask rejects become NaN
Where(rows, mask) ==
    [i \in DOMAIN rows |->
        [track_id |-> rows[i].track_id,
         index |-> rows[i].index,
         alpha |-> IF Keeps(mask, rows[i].alpha) THEN rows[i].alpha ELSE NaN,
         fit |-> IF Keeps(mask, rows[i].fit) THEN rows[i].fit ELSE NaN,
         diffusion_coefficient |->
             IF Keeps(mask, rows[i].diffusion_coefficient)
             THEN rows[i].diffusion_coefficient ELSE NaN]]

\* .index.to_numpy()
IndexOf(rows) == [i \in DOMAIN rows |-> <<rows[i].track_id, rows[i].index>>]

\* every series is fitted: the three classes; the plots follow
AnalyzeFitDone ==
    /\ an_pc = "fit"
    /\ an_k > Len(current_track_msd)
    /\ confined_tracks' =
          IndexOf(Where(FitRows(current_track_fit_df, 1), "confined"))
    /\ diffusive_tracks' =
          IndexOf(Where(FitRows(current_track_fit_df, 1), "diffusive"))
    /\ directed_tracks' =
          IndexOf(Where(FitRows(current_track_fit_df, 1), "directed"))
    /\ an_pc' = "done"
    /\ UNCHANGED <<tracks_df, timedelay, an_k, current_track_msd,
                   current_track_fit_df, an_error>>
    /\ UNCHANGED <<trackVars, msdVars, histVars, detVars, fitVars, widgetVars,
                 objectVars, layerVars, featureVars>>

InitAnalyze ==
    /\ TrackIdle
    /\ MsdIdle
    /\ HistIdle
    /\ DetIdle
    /\ FitIdle
    /\ WidgetIdle
    /\ ObjectsIdle
    /\ LayersIdle
    /\ FeaturesIdle
    /\ an_pc = "msd"
    /\ tracks_df \in TracksTables
    /\ timedelay \in Deltas
    /\ an_k = 1
    /\ current_track_msd = <<>>
    /\ current_track_fit_df = <<>>
    /\ an_error = ""
    /\ confined_tracks = <<>>
    /\ diffusive_tracks = <<>>
    /\ directed_tracks = <<>>

NextAnalyze ==
    \/ AnalyzeMsd
    \/ AnalyzeMsdDone
    \/ AnalyzeFit
    \/ AnalyzeFitDone

SpecAnalyze == InitAnalyze /\ [][NextAnalyze]_vars

----------------------------------------------------------------------------
(* Properties of the batch analysis.                                       *)

\* the tracks with at least 2 rows
LongEnough == {k \in DOMAIN tracks_df : Len(tracks_df[k].rows) >= 2}

\* C19: a fit that does not converge for one track does not abort the
\* batch: the analysis goes on and the other tracks get their fit results.
C19_FitFailureDoesNotAbort ==
    an_error = NotConverged =>
        /\ an_pc # "raised"
        /\ Len(current_track_fit_df) = Len(tracks_df) - 1

\* C20: a track with fewer than 2 rows is skipped and the analysis goes on
\* with the other tracks: it ends with an MSD series and a fit for each of
\* them.
C20_ShortTrackSkipped ==
    (an_pc \in {"done", "raised"}
        /\ \E k \in DOMAIN tracks_df : Len(tracks_df[k].rows) < 2) =>
        /\ an_pc = "done"
        /\ an_error = ""
        /\ Len(current_track_msd) = Cardinality(LongEnough)

\* the tracks with an entry in a class
TracksIn(class) == {class[i][1] : i \in DOMAIN class}

\* the alpha fitted for a track
AlphaOf(k) == Num(current_track_fit_df[k][1].alpha)

\* C21: every analysed track is in exactly one class, the one of its alpha:
\* confined below 0.4, directed above 1.2, diffusive between; the classes
\* are pairwise disjoint and their sizes sum to the number of tracks.
C21_OneClassPerTrack ==
    an_pc = "done" =>
        /\ \A k \in DOMAIN current_track_fit_df :
              /\ k \in TracksIn(confined_tracks) <=> FLess(AlphaOf(k), ConfinedBelow)
              /\ k \in TracksIn(directed_tracks) <=> FLess(DirectedAbove, AlphaOf(k))
              /\ k \in TracksIn(diffusive_tracks) <=>
                    (~FLess(AlphaOf(k), ConfinedBelow) /\ ~FLess(DirectedAbove, AlphaOf(k)))
        /\ TracksIn(confined_tracks) \cap TracksIn(diffusive_tracks) = {}
        /\ TracksIn(confined_tracks) \cap TracksIn(directed_tracks) = {}
        /\ TracksIn(diffusive_tracks) \cap TracksIn(directed_tracks) = {}
        /\ Len(confined_tracks) + Len(diffusive_tracks) + Len(directed_tracks)
              = Len(current_track_fit_df)

----------------------------------------------------------------------------
(* TrackPyInitWidget._track(): the Track button.                           *)
(*                                                                         *)
(* A detection is a coordinate row <<frame, y, x>> or <<frame, z, y, x>>   *)
(* with one feature, area.  tp.link_df may give the rows any particle ids  *)
(* that differ within a frame.                                             *)

PointCounts == {1, 2, 3}      \* detections of the points layer
PointFrames == {0, 1}
CoordCounts == {3, 4}         \* coordinates of a point
Areas == {5, 7}
Visibilities == {0, 1}

\* the coordinate row of detection i in frame f
PointRow(f, i, c) == IF c = 3 THEN <<f, 0, i>> ELSE <<f, 0, 0, i>>

PointTables ==
    UNION {{[i \in 1..n |-> PointRow(fr[i], i, c)] : fr \in [1..n -> PointFrames]} :
           n \in PointCounts, c \in CoordCounts}

FeatureTables(n) ==
    {[has_visibility |-> h, visibility |-> v, area |-> a] :
        h \in BOOLEAN, v \in [1..n -> Visibilities], a \in [1..n -> Areas]}

\* positions of the rows the boolean mask keeps, in order
RECURSIVE Kept(_, _)
Kept(mask, i) ==
    IF i > Len(mask) THEN <<>>
    ELSE (IF mask[i] THEN <<i>> ELSE <<>>) \o Kept(mask, i + 1)

\* _points_visibility == 1
VisibleMask(f) == [i \in DOMAIN f.visibility |-> f.visibility[i] = 1]

\* _columns = ["y", "x"]; if "z" in _columns: ...; _columns = ["frame"] + _columns
TrackColumns ==
    LET yx == <<"y", "x">>
        zyx == IF \E k \in DOMAIN yx : yx[k] = "z" THEN <<"z">> \o yx ELSE yx
    IN  <<"frame">> \o zyx

\* pd.DataFrame(_points, columns=_columns) of rows with this many values
DataFrameError(rows, columns) ==
    IF \E i \in DOMAIN rows : Len(rows[i]) # Len(columns)
    THEN "Shape of passed values does not match the columns"
    ELSE ""

\* _points_pd[_col] = _points_properties[_col][mask]: the filtered Series
\* keeps the row labels of the layer and the assignment aligns on labels,
\* so row i of the new table gets the value of detection i of the layer if
\* that one is visible, and NaN otherwise
AssignedSeries(col, mask, m) ==
    [i \in 1..m |-> IF mask[i] THEN Num(col[i]) ELSE NaN]

\* the table handed to track()
PointsPd(pts, f) ==
    LET mask == VisibleMask(f)
        keep == Kept(mask, 1)
        col == AssignedSeries(f.area, mask, Len(keep))
    IN  [i \in DOMAIN keep |-> [coords |-> pts[keep[i]], area |-> col[i]]]

\* particle ids the linker may give the rows: different within a frame
LinkIds(tbl) ==
    {ids \in [DOMAIN tbl -> 0..(Len(tbl) - 1)] :
        \A i, j \in DOMAIN tbl :
            (i # j /\ tbl[i].coords[1] = tbl[j].coords[1]) => ids[i] # ids[j]}

TransformSizeOfFrames(rows, i) ==
    Cardinality({j \in DOMAIN rows : rows[j].coords[1] = rows[i].coords[1]})

\* groupby("track_id")["frame"].transform("size") at row i
TransformSize(rows, i) ==
    Cardinality({j \in DOMAIN rows : rows[j].track_id = rows[i].track_id})

\* Track is pressed: the columns, the visibility filter, the linker's table
TrackPressed ==
    /\ tw_pc = "ready"
    /\ tw_columns' = TrackColumns
    /\ IF ~features.has_visibility
       THEN /\ tw_pc' = "returned"
            /\ tw_warnings' = Append(tw_warnings, "Please filter the points first.")
            /\ UNCHANGED points_pd
       ELSE IF DataFrameError(points, TrackColumns) # ""
       THEN /\ tw_pc' = "raised"
            /\ UNCHANGED <<points_pd, tw_warnings>>
       ELSE /\ tw_pc' = "linking"
            /\ points_pd' = PointsPd(points, features)
            /\ UNCHANGED tw_warnings
    /\ UNCHANGED <<points, features, tw_tracks, tracks_layer, tracks_info,
                   length_range>>
    /\ UNCHANGED <<trackVars, msdVars, histVars, detVars, fitVars, analyzeVars,
                   objectVars, layerVars, featureVars>>

\* the value of a column of a tracks-table row
ColumnOf(row, c) ==
    CASE c = "track_id" -> row.track_id
      [] c = "frame" -> row.coords[1]
      [] c = "y" -> row.coords[2]
      [] c = "x" -> row.coords[3]

\* table[columns].to_numpy(): one tuple per row
ToNumpy(table, columns) ==
    [i \in DOMAIN table |-> [k \in DOMAIN columns |-> ColumnOf(table[i], columns[k])]]

\* len(table.groupby("track_id"))
TrackCount(table) == Cardinality({table[i].track_id : i \in DOMAIN table})

\* the rows track() returns, with the length column
TrackLinkedRows ==
    /\ \E ids \in LinkIds(points_pd) :
        LET raw == {ids[i] : i \in DOMAIN ids}
            rows == [i \in DOMAIN points_pd |->
                        [coords |-> points_pd[i].coords,
                         area |-> points_pd[i].area,
                         track_id |-> Relabel(ids[i], raw)]]
        IN  tw_tracks' = [i \in DOMAIN rows |->
                            [coords |-> rows[i].coords,
                             area |-> rows[i].area,
                             track_id |-> rows[i].track_id,
                             length |-> TransformSize(rows, i)]]
    \* viewer.add_tracks: the first Tracks layer makes NPLayersWidget emit
    \* layerAdded, and add_graph() takes the layer
    /\ tracks_layer' = [present |-> TRUE,
                        data |-> ToNumpy(tw_tracks', <<"track_id">> \o tw_columns),
                        original_tracks_df |-> tw_tracks']
    /\ tracks_info' = TrackCount(tw_tracks')
    /\ tw_pc' = "done"

\* track() returns, the length column is added, the tracks layer is created
TrackLinked ==
    /\ tw_pc = "linking"
    /\ \/ /\ points_pd = <<>>          \* no row to link: the linker may raise
          /\ tw_pc' = "raised"
          /\ UNCHANGED <<tw_tracks, tracks_layer, tracks_info>>
       \/ TrackLinkedRows
    /\ UNCHANGED <<points, features, points_pd, tw_columns, tw_warnings,
                   length_range>>
    /\ UNCHANGED <<trackVars, msdVars, histVars, detVars, fitVars, analyzeVars,
                   objectVars, layerVars, featureVars>>

\* the range selector's bounds
LengthBounds == {0, 1, 2, 3}

\* ndim of the 2-D array a tracks layer holds
ArrayNdim(array) == Len(<<"rows", "columns">>)

\* the columns _filter_tracks_length shows
FilterColumns(array) ==
    LET yx == <<"y", "x">>
        zyx == IF ArrayNdim(array) > 4 THEN <<"z">> \o yx ELSE yx
    IN  <<"track_id">> \o (<<"frame">> \o zyx)

AcceptedTracksExclusive(table, vmin, vmax) ==
    LET mask == [i \in DOMAIN table |->
                    table[i].length > vmin /\ table[i].length < vmax]
        keep == Kept(mask, 1)
    IN  [i \in DOMAIN keep |-> table[keep[i]]]

\* the rows whose length is in [vmin, vmax]
AcceptedTracks(table, vmin, vmax) ==
    LET mask == [i \in DOMAIN table |->
                    table[i].length >= vmin /\ table[i].length <= vmax]
        keep == Kept(mask, 1)
    IN  [i \in DOMAIN keep |-> table[keep[i]]]

NoTracksWarning == "Please generate the tracking first. No tracks layer found."

\* TrackingFilteringWidget._filter_tracks_length(vmin, vmax)
FilterTracksLength(vmin, vmax) ==
    /\ tw_pc \in {"ready", "returned", "raised", "done"}
    /\ IF ~tracks_layer.present
       THEN /\ tw_warnings' = IF \E k \in DOMAIN tw_warnings :
                                    tw_warnings[k] = NoTracksWarning
                              THEN tw_warnings
                              ELSE Append(tw_warnings, NoTracksWarning)
            /\ UNCHANGED <<tracks_layer, tracks_info, length_range>>
       ELSE LET accepted == AcceptedTracks(tracks_layer.original_tracks_df,
                                           vmin, vmax)
            IN  /\ tracks_layer' =
                      [tracks_layer EXCEPT
                          !.data = ToNumpy(accepted, FilterColumns(tracks_layer.data))]
                /\ tracks_info' = TrackCount(accepted)
                /\ length_range' = <<vmin, vmax>>
                /\ UNCHANGED tw_warnings
    /\ UNCHANGED <<tw_pc, points, features, points_pd, tw_columns, tw_tracks>>
    /\ UNCHANGED <<trackVars, msdVars, histVars, detVars, fitVars, analyzeVars,
                   objectVars, layerVars, featureVars>>

InitTrackWidget ==
    /\ TrackIdle
    /\ MsdIdle
    /\ HistIdle
    /\ DetIdle
    /\ FitIdle
    /\ AnalyzeIdle
    /\ tw_pc = "ready"
    /\ points \in PointTables
    /\ features \in FeatureTables(Len(points))
    /\ points_pd = <<>>
    /\ tw_columns = <<>>
    /\ tw_tracks = <<>>
    /\ tw_warnings = <<>>
    /\ tracks_layer = NoTracksLayer
    /\ tracks_info = 0
    /\ length_range = <<>>
    /\ ObjectsIdle
    /\ LayersIdle
    /\ FeaturesIdle

NextTrackWidget ==
    \/ TrackPressed
    \/ TrackLinked
    \/ \E vmin, vmax \in LengthBounds : FilterTracksLength(vmin, vmax)

SpecTrackWidget == InitTrackWidget /\ [][NextTrackWidget]_vars

----------------------------------------------------------------------------
(* Properties of the Track button.                                         *)

\* C22: the table handed to the linker holds exactly the visible
\* detections, each with its own area, and no visibility column; without a
\* visibility feature nothing is linked.
C22_VisibleRowsWithOwnFeatures ==
    /\ tw_pc \in {"linking", "done"} =>
          LET keep == Kept(VisibleMask(features), 1)
          IN  /\ Len(points_pd) = Len(keep)
              /\ \A i \in DOMAIN points_pd :
                    /\ points_pd[i].coords = points[keep[i]]
                    /\ points_pd[i].area = Num(features.area[keep[i]])
                    /\ DOMAIN points_pd[i] = {"coords", "area"}
    /\ (tw_pc # "ready" /\ ~features.has_visibility) =>
          /\ tw_pc = "returned"
          /\ points_pd = <<>>
          /\ tw_tracks = <<>>

\* C23: every row's length is the number of rows with its track_id: it is
\* the same within a track, and the lengths of the distinct tracks sum to
\* the number of rows.
C23_LengthIsTrackSize ==
    tw_pc = "done" =>
        /\ \A i \in DOMAIN tw_tracks :
              tw_tracks[i].length =
                  Cardinality({j \in DOMAIN tw_tracks :
                                  tw_tracks[j].track_id = tw_tracks[i].track_id})
        /\ \A i, j \in DOMAIN tw_tracks :
              tw_tracks[i].track_id = tw_tracks[j].track_id
                  => tw_tracks[i].length = tw_tracks[j].length
        /\ LET ids == {tw_tracks[i].track_id : i \in DOMAIN tw_tracks}
               LengthOf(t) == tw_tracks[CHOOSE i \in DOMAIN tw_tracks :
                                           tw_tracks[i].track_id = t].length
               RECURSIVE SumLengths(_)
               SumLengths(S) == IF S = {} THEN 0
                                ELSE LET t == CHOOSE u \in S : TRUE
                                     IN  LengthOf(t) + SumLengths(S \ {t})
           IN  SumLengths(ids) = Len(tw_tracks)

\* a track of two detections in different frames and a track of one
C23_Witness ==
    /\ tw_pc = "done"
    /\ Len(tw_tracks) = 3
    /\ tw_tracks[1].track_id = tw_tracks[3].track_id
    /\ tw_tracks[1].track_id # tw_tracks[2].track_id
    /\ tw_tracks[1].length = 2
    /\ tw_tracks[2].length = 1
    /\ tw_tracks[3].length = 2

\* C26: whatever ranges were selected before, the layer shows exactly the
\* rows of the original tracks table whose length is in the last range,
\* bounds included; a track is shown whole or not at all, and the original
\* table in the layer's metadata stays the table the linking produced.
C26_LayerShowsLastRange ==
    tracks_layer.present =>
        /\ tracks_layer.original_tracks_df = tw_tracks
        /\ length_range # <<>> =>
              LET orig == tracks_layer.original_tracks_df
                  Shown(i) == \E k \in DOMAIN tracks_layer.data :
                                 tracks_layer.data[k] =
                                     <<orig[i].track_id>> \o orig[i].coords
              IN  /\ \A i \in DOMAIN orig :
                        Shown(i) <=> (/\ orig[i].length >= length_range[1]
                                      /\ orig[i].length <= length_range[2])
                  /\ \A k \in DOMAIN tracks_layer.data :
                        \E i \in DOMAIN orig :
                            tracks_layer.data[k] =
                                <<orig[i].track_id>> \o orig[i].coords
                  /\ Len(tracks_layer.data) =
                        Cardinality({i \in DOMAIN orig : Shown(i)})
                  /\ \A i, j \in DOMAIN orig :
                        orig[i].track_id = orig[j].track_id
                            => (Shown(i) <=> Shown(j))

\* a track of two rows is shown and a track of one row is hidden by the
\* range [2, 3]
C26_Witness ==
    /\ tracks_layer.present
    /\ length_range = <<2, 3>>
    /\ Len(tracks_layer.original_tracks_df) = 3
    /\ Len(tracks_layer.data) = 2
    /\ tracks_info = 1

\* C25: for points with the four coordinates frame, z, y, x the linker's
\* table gets the columns frame, z, y, x and the linking completes.
C25_ZColumnSelected ==
    (tw_pc \in {"done", "raised"} /\ features.has_visibility
        /\ \A i \in DOMAIN points : Len(points[i]) = 4) =>
        /\ tw_pc = "done"
        /\ tw_columns = <<"frame", "z", "y", "x">>

----------------------------------------------------------------------------
(* ObjectDetection: detect_objects() and get_objects_in_frame().           *)

FrameCounts == {1, 2, 3}         \* frames of the stack
RegionCounts == {0, 1, 2}        \* regions of a frame
QueriedFrames == {0, 1, 2, 3}    \* frame_number of a query

\* the rows of the frames from frame i on, counts[i + 1] regions in frame i
RECURSIVE SeriesRows(_, _)
SeriesRows(counts, i) ==
    IF i >= Len(counts) THEN <<>>
    ELSE [k \in 1..counts[i + 1] |-> [frame |-> i, label |-> k]]
             \o SeriesRows(counts, i + 1)

\* tables get_timeseries_regions_properties can return
DetectionTables ==
    UNION {{SeriesRows(c, 0) : c \in [1..n -> RegionCounts]} : n \in FrameCounts}

\* self.objects[self.objects["frame"] == frame_number]
RowsOfFrame(rows, frame_number) ==
    LET keep == Kept([i \in DOMAIN rows |-> rows[i].frame = frame_number], 1)
    IN  [i \in DOMAIN keep |-> rows[keep[i]]]

\* detect_objects(): the table of the stack is stored, unless the series
\* function raises or gives None
DetectObjects ==
    /\ od_pc = "ready"
    /\ \/ \E t \in DetectionTables : objects' = [is_none |-> FALSE, rows |-> t]
       \/ objects' = NoObjects      \* None for a stack of one rejected frame
       \/ UNCHANGED objects         \* the series function raised
    /\ od_ret' = NoReturn
    /\ UNCHANGED od_pc
    /\ UNCHANGED <<trackVars, msdVars, histVars, detVars, fitVars, analyzeVars,
                   widgetVars, layerVars, featureVars>>

\* get_objects_in_frame(frame_number): self.get_objects is not a method of
\* the class, so the call made when objects is None raises AttributeError
GetObjectsInFrame(frame_number) ==
    /\ od_pc = "ready"
    /\ IF objects.is_none
       THEN od_ret' = [kind |-> "AttributeError", frame |-> frame_number,
                       rows |-> <<>>]
       ELSE od_ret' = [kind |-> "table", frame |-> frame_number,
                       rows |-> RowsOfFrame(objects.rows, frame_number)]
    /\ UNCHANGED <<od_pc, objects>>
    /\ UNCHANGED <<trackVars, msdVars, histVars, detVars, fitVars, analyzeVars,
                   widgetVars, layerVars, featureVars>>

InitObjects ==
    /\ TrackIdle
    /\ MsdIdle
    /\ HistIdle
    /\ DetIdle
    /\ FitIdle
    /\ AnalyzeIdle
    /\ WidgetIdle
    /\ LayersIdle
    /\ FeaturesIdle
    /\ od_pc = "ready"
    /\ objects = NoObjects
    /\ od_ret = NoReturn

NextObjects ==
    \/ DetectObjects
    \/ \E f \in QueriedFrames : GetObjectsInFrame(f)

SpecObjects == InitObjects /\ [][NextObjects]_vars

\* C27: a query for frame f returns a table, computing the detections
\* first when there are none, and the table holds exactly the stored
\* detections of frame f.
C27_QueryReturnsFrameRows ==
    od_ret.kind # "none" =>
        /\ od_ret.kind = "table"
        /\ ~objects.is_none
        /\ \A i \in DOMAIN od_ret.rows : od_ret.rows[i].frame = od_ret.frame
        /\ Len(od_ret.rows) =
              Cardinality({i \in DOMAIN objects.rows :
                              objects.rows[i].frame = od_ret.frame})

----------------------------------------------------------------------------
(* NPLayersWidget: one selector per layer type present in the viewer.      *)
(*                                                                         *)
(* layers_combo[t] is the entry of the dictionary _layers_combo for the    *)
(* type t: whether the key exists, the names its combo box lists and the   *)
(* position of the current one (0 for an empty box).                       *)

LayerTypes == {"Image", "Points", "Tracks"}

\* layers that can be in the viewer; the viewer keeps names unique
LayerPool ==
    {[name |-> "Image_0", type |-> "Image"],
     [name |-> "Objects_0", type |-> "Points"],
     [name |-> "Objects_1", type |-> "Points"],
     [name |-> "Tracks_0", type |-> "Tracks"],
     [name |-> "Tracks_1", type |-> "Tracks"]}

NoSelector == [exists |-> FALSE, items |-> <<>>, current |-> 0]

UpdateLayersOfAnyType(layers, t) ==
    [i \in DOMAIN layers |-> layers[i].name]

\* NPLayerWidget._update_layers: the names of the viewer's layers of the
\* type, in the viewer's order
UpdateLayers(layers, t) ==
    LET keep == Kept([i \in DOMAIN layers |-> layers[i].type = t], 1)
    IN  [i \in DOMAIN keep |-> layers[keep[i]].name]

\* a selector just refilled: the combo box shows its first item
Refilled(layers, t) ==
    LET items == UpdateLayers(layers, t)
    IN  [exists |-> TRUE, items |-> items,
         current |-> IF items = <<>> THEN 0 ELSE 1]

\* NPLayerWidget.get_selected_layer: None for an empty box, else the layer
\* of the viewer with the current text as name
GetSelectedLayer(combo, layers) ==
    IF Len(combo.items) = 0 THEN "None"
    ELSE IF \E i \in DOMAIN layers : layers[i].name = combo.items[combo.current]
    THEN combo.items[combo.current]
    ELSE "KeyError"

\* add_graph() of the filtering widget connected to layerAdded: the
\* histogram is rebuilt for the selected layer of its type
AddGraph(combos, layers, t) ==
    IF ~combos[t].exists THEN ""
    ELSE LET l == GetSelectedLayer(combos[t], layers)
         IN  IF l \in {"None", "KeyError"} THEN "" ELSE l

Without(layers, i) ==
    [k \in 1..(Len(layers) - 1) |-> IF k < i THEN layers[k] ELSE layers[k + 1]]

\* a layer is inserted into the viewer: _layer_added handles the event
LayerInserted(layer) ==
    /\ npl_pc = "ready"
    /\ \A i \in DOMAIN viewer_layers : viewer_layers[i].name # layer.name
    /\ viewer_layers' = Append(viewer_layers, layer)
    /\ layers_combo' =
          [layers_combo EXCEPT ![layer.type] = Refilled(viewer_layers', layer.type)]
    /\ IF ~layers_combo[layer.type].exists
       THEN \* add_layer: a new selector, and layerAdded is emitted
            last_event' =
                [kind |-> "inserted", type |-> layer.type, emitted |-> TRUE,
                 graph |-> IF layer.type \in {"Points", "Tracks"}
                           THEN AddGraph(layers_combo', viewer_layers', layer.type)
                           ELSE ""]
       ELSE \* the selector of the type is refilled, nothing is emitted
            last_event' =
                [kind |-> "inserted", type |-> layer.type, emitted |-> FALSE,
                 graph |-> ""]
    /\ UNCHANGED npl_pc
    /\ UNCHANGED <<trackVars, msdVars, histVars, detVars, fitVars, analyzeVars,
                   widgetVars, objectVars, featureVars>>

\* a layer is removed from the viewer: _layer_removed handles the event
LayerRemoved(i) ==
    /\ npl_pc = "ready"
    /\ i \in DOMAIN viewer_layers
    /\ viewer_layers' = Without(viewer_layers, i)
    /\ LET t == viewer_layers[i].type
           refilled == Refilled(viewer_layers', t)
       IN  IF ~layers_combo[t].exists
           THEN /\ UNCHANGED layers_combo
                /\ last_event' = [kind |-> "removed", type |-> t,
                                  emitted |-> FALSE, graph |-> ""]
           ELSE IF Len(refilled.items) = 0
           THEN \* remove_layer: the selector goes, layerRemoved is emitted
                /\ layers_combo' = [layers_combo EXCEPT ![t] = NoSelector]
                /\ last_event' = [kind |-> "removed", type |-> t,
                                  emitted |-> TRUE, graph |-> ""]
           ELSE /\ layers_combo' = [layers_combo EXCEPT ![t] = refilled]
                /\ last_event' = [kind |-> "removed", type |-> t,
                                  emitted |-> FALSE, graph |-> ""]
    /\ UNCHANGED npl_pc
    /\ UNCHANGED <<trackVars, msdVars, histVars, detVars, fitVars, analyzeVars,
                   widgetVars, objectVars, featureVars>>

\* the user picks another item of a selector
LayerSelected(t, k) ==
    /\ npl_pc = "ready"
    /\ layers_combo[t].exists
    /\ k \in DOMAIN layers_combo[t].items
    /\ k # layers_combo[t].current
    /\ layers_combo' = [layers_combo EXCEPT ![t].current = k]
    /\ last_event' = [kind |-> "selected", type |-> t, emitted |-> FALSE,
                      graph |-> ""]
    /\ UNCHANGED <<npl_pc, viewer_layers>>
    /\ UNCHANGED <<trackVars, msdVars, histVars, detVars, fitVars, analyzeVars,
                   widgetVars, objectVars, featureVars>>

\* NPLayersWidget.__init__ on a viewer that holds at most one layer
InitLayers ==
    /\ TrackIdle
    /\ MsdIdle
    /\ HistIdle
    /\ DetIdle
    /\ FitIdle
    /\ AnalyzeIdle
    /\ WidgetIdle
    /\ ObjectsIdle
    /\ FeaturesIdle
    /\ npl_pc = "ready"
    /\ viewer_layers \in {<<>>} \cup {<<l>> : l \in LayerPool}
    /\ layers_combo =
          [t \in LayerTypes |->
              IF \E i \in DOMAIN viewer_layers : viewer_layers[i].type = t
              THEN Refilled(viewer_layers, t)
              ELSE NoSelector]
    /\ last_event = NoEvent

NextLayers ==
    \/ \E l \in LayerPool : LayerInserted(l)
    \/ \E i \in 1..Cardinality(LayerPool) : LayerRemoved(i)
    \/ \E t \in LayerTypes, k \in 1..Cardinality(LayerPool) : LayerSelected(t, k)

SpecLayers == InitLayers /\ [][NextLayers]_vars

\* C28: every insertion of a Points layer, with or without another Points
\* layer in the viewer, emits layerAdded and rebuilds the filter histogram
\* for the selected Points layer.
C28_EveryPointsInsertionRebuilds ==
    (last_event.kind = "inserted" /\ last_event.type = "Points") =>
        /\ last_event.emitted
        /\ last_event.graph # ""
        /\ last_event.graph =
              GetSelectedLayer(layers_combo["Points"], viewer_layers)

\* C29: a selector exists for a type exactly when the viewer holds a layer
\* of the type, it lists exactly the viewer's layers of the type, and the
\* selected layer of every selector is a layer of the viewer.
C29_SelectorsMatchViewer ==
    npl_pc = "ready" =>
        \A t \in LayerTypes :
            LET names == {viewer_layers[i].name :
                            i \in {j \in DOMAIN viewer_layers :
                                      viewer_layers[j].type = t}}
                items == layers_combo[t].items
            IN  /\ layers_combo[t].exists <=> names # {}
                /\ {items[k] : k \in DOMAIN items} = names
                /\ Len(items) = Cardinality(names)
                /\ layers_combo[t].exists =>
                      GetSelectedLayer(layers_combo[t], viewer_layers) \in names

\* a Points layer was removed while another stays, after the Tracks
\* layers had all gone
C29_Witness ==
    /\ npl_pc = "ready"
    /\ last_event.kind = "removed"
    /\ last_event.type = "Points"
    /\ layers_combo["Points"].exists
    /\ Len(layers_combo["Points"].items) = 1
    /\ ~layers_combo["Tracks"].exists
    /\ layers_combo["Image"].exists

----------------------------------------------------------------------------
(* FeatureSelectionWidget: the feature string behind the check boxes.      *)
(*                                                                         *)
(* A string is the sequence of its tokens: a feature name, which holds no  *)
(* space, or one space " ".  The patterns searched for are a name between  *)
(* two spaces, so they match whole names only, as they do in the string.   *)

MaxEvents == 5         \* check box events of a behaviour

\* the check boxes: Keep Original and some of the sigma boxes
CheckBoxes == {"original", "gaussian=1", "gaussian=10", "difference_of_gaussian=1"}

\* _default_features
DefaultFeatures ==
    <<" ", "original", " ", "gaussian=1", " ", "difference_of_gaussian=1", " ",
      "laplace_of_gaussian=1", " ", "gaussian=0.5", " ",
      "difference_of_gaussian=0.5", " ", "laplace_of_gaussian=0.5", " ",
      "gaussian=0.3", " ", "difference_of_gaussian=0.3", " ",
      "laplace_of_gaussian=0.3", " ">>

\* text starts with pat at position i
MatchesAt(text, pat, i) ==
    /\ i + Len(pat) - 1 <= Len(text)
    /\ \A k \in DOMAIN pat : text[i + k - 1] = pat[k]

\* str.replace from position i on: the occurrences that do not overlap,
\* from the left
RECURSIVE ReplaceFrom(_, _, _, _)
ReplaceFrom(text, pat, by, i) ==
    IF i > Len(text) THEN <<>>
    ELSE IF MatchesAt(text, pat, i)
    THEN by \o ReplaceFrom(text, pat, by, i + Len(pat))
    ELSE <<text[i]>> \o ReplaceFrom(text, pat, by, i + 1)

RECURSIVE LStrip(_)
LStrip(text) ==
    IF text # <<>> /\ Head(text) = " " THEN LStrip(Tail(text)) ELSE text

RECURSIVE RStrip(_)
RStrip(text) ==
    IF text # <<>> /\ text[Len(text)] = " "
    THEN RStrip(SubSeq(text, 1, Len(text) - 1))
    ELSE text

\* str.strip()
Strip(text) == RStrip(LStrip(text))

\* _add_feature
AddFeature(text, feature) == (text \o <<" ">>) \o (<<feature>> \o <<" ">>)

\* _remove_feature
RemoveFeature(text, feature) ==
    (<<" ">> \o Strip(ReplaceFrom(text, <<" ", feature, " ">>, <<" ">>, 1)))
        \o <<" ">>

\* get_features()
GetFeatures(text) == IF text # <<>> THEN text ELSE DefaultFeatures

\* the names in a string, between its spaces
Tokens(text) == {text[k] : k \in DOMAIN text} \ {" "}

\* a check box changes state: _update_features or _update_original
BoxToggled(box) ==
    /\ fs_pc = "ready"
    /\ fs_events < MaxEvents
    /\ fs_events' = fs_events + 1
    /\ IF box \in checked
       THEN /\ checked' = checked \ {box}
            /\ features_text' = RemoveFeature(features_text, box)
       ELSE /\ checked' = checked \cup {box}
            /\ features_text' = AddFeature(features_text, box)
    /\ UNCHANGED fs_pc
    /\ UNCHANGED <<trackVars, msdVars, histVars, detVars, fitVars, analyzeVars,
                   widgetVars, objectVars, layerVars>>

\* FeatureSelectionWidget.__init__: only Keep Original is checked
InitFeatures ==
    /\ TrackIdle
    /\ MsdIdle
    /\ HistIdle
    /\ DetIdle
    /\ FitIdle
    /\ AnalyzeIdle
    /\ WidgetIdle
    /\ ObjectsIdle
    /\ LayersIdle
    /\ fs_pc = "ready"
    /\ checked = {"original"}
    /\ features_text = <<" ", "original", " ">>
    /\ fs_events = 0

NextFeatures == \E box \in CheckBoxes : BoxToggled(box)

SpecFeatures == InitFeatures /\ [][NextFeatures]_vars

\* C30: with no box checked get_features() gives the default features;
\* otherwise the names in its string are exactly the checked boxes.
C30_DefaultWhenNoneChecked ==
    fs_pc = "ready" =>
        IF checked = {}
        THEN GetFeatures(features_text) = DefaultFeatures
        ELSE Tokens(GetFeatures(features_text)) = checked

====
